---- MODULE Spec2Model ----
(***************************************************************************)
(* A model of the ICFPC-2019 wrapping solver (src/src/main.rs and          *)
(* src/src/parser.rs): the Level, the drones, the step function, the       *)
(* exploration search and the scheduling loop of solve_impl.               *)
(***************************************************************************)
EXTENDS Integers, Sequences, FiniteSets, TLC

VARIABLES
  level,      \* the Level: grid, weights, zones, width, height, empty, ...
  drones,     \* Vec<Drone>, 1-based here; the code's drone_idx is index - 1
  pc,         \* where solve_impl stands: "start", "turn", "done" or a panic
  drone_idx,  \* the for loop's index over 0..round_len (0-based, as in the code)
  round_len,  \* drones.len() as evaluated when the current for loop began
  call        \* the arguments and progress of a single step / explore_impl call

vars == <<level, drones, pc, drone_idx, round_len, call>>

----------------------------------------------------------------------------
(* Values *)

Pt(x, y) == [x |-> x, y |-> y]

EMPTY == "EMPTY"
BLOCKED == "BLOCKED"
WRAPPED == "WRAPPED"

HAND == "HAND"
WHEELS == "WHEELS"
DRILL == "DRILL"
TELEPORT == "TELEPORT"
CLONE == "CLONE"
Bonus == {HAND, WHEELS, DRILL, TELEPORT, CLONE}

\* The order of the array explore_impl iterates over.
Actions == <<"LEFT", "RIGHT", "UP", "DOWN", "JUMP0", "JUMP1", "JUMP2">>
Directional == {"LEFT", "RIGHT", "UP", "DOWN"}

UNDECIDED_ZONE == 255
WHEELS_TIME == 51
DRILL_TIME == 31
BEAKON_DIST == 50
INITIAL_MAX_LEN == 5

None == [ok |-> FALSE]

Abs(n) == IF n < 0 THEN -n ELSE n
Max(a, b) == IF a > b THEN a ELSE b

RECURSIVE SumOver(_, _)
\* Sum of f[e] over the elements e of the finite set S.
SumOver(S, f) ==
  IF S = {} THEN 0
  ELSE LET e == CHOOSE e \in S : TRUE
       IN  f[e] + SumOver(S \ {e}, f)

\* HashMap<K, usize> helpers: an absent key reads as the default.
get_or(m, k, default) == IF k \in DOMAIN m THEN m[k] ELSE default

update(m, k, delta) ==
  LET new_v == get_or(m, k, 0) + delta
  IN  IF new_v > 0
      THEN [j \in DOMAIN m \cup {k} |-> IF j = k THEN new_v ELSE m[j]]
      ELSE [j \in DOMAIN m \ {k} |-> m[j]]

----------------------------------------------------------------------------
(* Reachability geometry: the table of hand_blocker *)

HandTable == {Pt(0, 0), Pt(1, -1)} \cup {Pt(1, n) : n \in 0..19}

\* FALSE where the code reaches unimplemented!().
hand_implemented(p) == p \in HandTable

\* A table of n cells per hand, split into two columns that do not overlap.
hand_blocker_split(p) ==
  IF p.x = 0 \/ p.y < 2 THEN {p}
  ELSE {Pt(0, y) : y \in 1..(p.y \div 2)} \cup {Pt(1, y) : y \in (p.y \div 2 + 1)..p.y}
hand_blocker(p) ==
  CASE
    p = Pt(0, 0) -> {Pt(0, 0)}
  []
    p = Pt(1, -1) -> {Pt(1, -1)}
  []
    p = Pt(1, 0) -> {Pt(1, 0)}
  []
    p = Pt(1, 1) -> {Pt(1, 1)}
  []
    p = Pt(1, 2) -> {Pt(0, y) : y \in 1..2} \cup {Pt(1, y) : y \in 1..3}
  []
    p = Pt(1, 3) -> {Pt(0, y) : y \in 1..2} \cup {Pt(1, y) : y \in 2..4}
  []
    p = Pt(1, 4) -> {Pt(0, y) : y \in 1..3} \cup {Pt(1, y) : y \in 2..5}
  []
    p = Pt(1, 5) -> {Pt(0, y) : y \in 1..3} \cup {Pt(1, y) : y \in 3..6}
  []
    p = Pt(1, 6) -> {Pt(0, y) : y \in 1..4} \cup {Pt(1, y) : y \in 3..7}
  []
    p = Pt(1, 7) -> {Pt(0, y) : y \in 1..4} \cup {Pt(1, y) : y \in 4..8}
  []
    p = Pt(1, 8) -> {Pt(0, y) : y \in 1..5} \cup {Pt(1, y) : y \in 4..9}
  []
    p = Pt(1, 9) -> {Pt(0, y) : y \in 1..5} \cup {Pt(1, y) : y \in 5..10}
  []
    p = Pt(1, 10) -> {Pt(0, y) : y \in 1..6} \cup {Pt(1, y) : y \in 5..11}
  []
    p = Pt(1, 11) -> {Pt(0, y) : y \in 1..6} \cup {Pt(1, y) : y \in 6..12}
  []
    p = Pt(1, 12) -> {Pt(0, y) : y \in 1..7} \cup {Pt(1, y) : y \in 6..13}
  []
    p = Pt(1, 13) -> {Pt(0, y) : y \in 1..7} \cup {Pt(1, y) : y \in 7..14}
  []
    p = Pt(1, 14) -> {Pt(0, y) : y \in 1..8} \cup {Pt(1, y) : y \in 7..15}
  []
    p = Pt(1, 15) -> {Pt(0, y) : y \in 1..8} \cup {Pt(1, y) : y \in 8..16}
  []
    p = Pt(1, 16) -> {Pt(0, y) : y \in 1..9} \cup {Pt(1, y) : y \in 8..17}
  []
    p = Pt(1, 17) -> {Pt(0, y) : y \in 1..9} \cup {Pt(1, y) : y \in 9..18}
  []
    p = Pt(1, 18) -> {Pt(0, y) : y \in 1..10} \cup {Pt(1, y) : y \in 9..19}
  []
    p = Pt(1, 19) -> {Pt(0, y) : y \in 1..10} \cup {Pt(1, y) : y \in 10..20}

----------------------------------------------------------------------------
(* Drone *)

DefaultHands == <<Pt(0, 0), Pt(1, -1), Pt(1, 0), Pt(1, 1)>>

Drone_new(pos) ==
  [pos |-> pos, hands |-> DefaultHands, wheels |-> 0, drill |-> 0,
   path |-> <<>>, plan |-> <<>>, zone |-> UNDECIDED_ZONE]

----------------------------------------------------------------------------
(* Level: cell access *)

grid_idx(lv, x, y) == x + y * lv.width

valid(lv, x, y) == x >= 0 /\ x < lv.width /\ y >= 0 /\ y < lv.height

\* get_cell and get_zone assert valid(x, y); every use below is guarded by it.
get_cell(lv, x, y) == lv.grid[grid_idx(lv, x, y)]

get_zone(lv, x, y) == lv.zones[grid_idx(lv, x, y)]

walkable(lv, x, y) == valid(lv, x, y) /\ get_cell(lv, x, y) # BLOCKED

\* The points of the grid.
Cells(lv) == {Pt(x, y) : x \in 0..(lv.width - 1), y \in 0..(lv.height - 1)}

\* The assertions of wrap_cell and of drill_cell.
wrap_cell_ok(lv, p) == valid(lv, p.x, p.y) /\ get_cell(lv, p.x, p.y) = EMPTY

drill_cell_ok(lv, p) == valid(lv, p.x, p.y) /\ get_cell(lv, p.x, p.y) = BLOCKED

\* wrap_cell that also notes on the cell how many cells were left EMPTY.
wrap_cell_numbering(lv, p) ==
  LET idx == grid_idx(lv, p.x, p.y)
      zone == lv.zones[idx]
  IN  [lv EXCEPT !.empty = @ - 1,
                 !.zones_empty = IF zone < 255 THEN [@ EXCEPT ![zone] = @ - 1] ELSE @,
                 !.weights = [@ EXCEPT ![idx] = lv.empty],
                 !.grid = [@ EXCEPT ![idx] = WRAPPED]]
\* wrap_cell without `self.zones_empty[zone as usize] -= 1`.
wrap_cell_keeps_zone_count(lv, p) ==
  LET idx == grid_idx(lv, p.x, p.y)
  IN  [lv EXCEPT !.empty = @ - 1,
                 !.grid = [@ EXCEPT ![idx] = WRAPPED]]
\* wrap_cell without `self.empty -= 1`.
wrap_cell_keeps_count(lv, p) ==
  LET idx == grid_idx(lv, p.x, p.y)
      zone == lv.zones[idx]
  IN  [lv EXCEPT !.zones_empty = IF zone < 255
                                 THEN [@ EXCEPT ![zone] = @ - 1]
                                 ELSE @,
                 !.grid = [@ EXCEPT ![idx] = WRAPPED]]

wrap_cell(lv, p) ==
  LET idx == grid_idx(lv, p.x, p.y)
      zone == lv.zones[idx]
  IN  [lv EXCEPT !.empty = @ - 1,
                 !.zones_empty = IF zone < 255
                                 THEN [@ EXCEPT ![zone] = @ - 1]
                                 ELSE @,
                 !.grid = [@ EXCEPT ![idx] = WRAPPED]]

\* drill_cell opening the cell instead of wrapping it.
drill_cell_reopens(lv, p) ==
  LET idx == grid_idx(lv, p.x, p.y)
  IN  [lv EXCEPT !.grid = [@ EXCEPT ![idx] = EMPTY]]

drill_cell(lv, p) ==
  LET idx == grid_idx(lv, p.x, p.y)
  IN  [lv EXCEPT !.grid = [@ EXCEPT ![idx] = WRAPPED]]

RECURSIVE wrap_all(_, _)
\* `for p in to_wrap { level.wrap_cell(p.x, p.y) }`: the points are distinct,
\* so the order of the HashSet's iteration does not change the result.
wrap_all(lv, S) ==
  IF S = {} THEN lv
  ELSE LET p == CHOOSE p \in S : TRUE
       IN  wrap_all(wrap_cell(lv, p), S \ {p})

RECURSIVE drill_all(_, _)
drill_all(lv, S) ==
  IF S = {} THEN lv
  ELSE LET p == CHOOSE p \in S : TRUE
       IN  drill_all(drill_cell(lv, p), S \ {p})

----------------------------------------------------------------------------
(* Step / simulation function *)

is_reaching(lv, from, hand) ==
  \A p \in hand_blocker(hand) : walkable(lv, from.x + p.x, from.y + p.y)

would_wrap(lv, drone, pos) ==
  {Pt(pos.x + drone.hands[i].x, pos.y + drone.hands[i].y) :
     i \in {j \in DOMAIN drone.hands :
              /\ is_reaching(lv, pos, drone.hands[j])
              /\ get_cell(lv, pos.x + drone.hands[j].x,
                          pos.y + drone.hands[j].y) = EMPTY}}

\* The test without `drill &&`: any cell of the grid passes.
valid_destination_any(lv, to, drill, drilled) ==
  \/ to \in drilled
  \/ valid(lv, to.x, to.y)
  \/ walkable(lv, to.x, to.y)

\* The test step_move applies to the first and to the second cell.
valid_destination(lv, to, drill, drilled) ==
  \/ to \in drilled
  \/ (drill /\ valid(lv, to.x, to.y))
  \/ walkable(lv, to.x, to.y)

\* step_move taking the second cell without testing it.
step_move_far(lv, drone, from, dx, dy, wheels, drill, drilled) ==
  LET to == Pt(from.x + dx, from.y + dy)
      to2 == Pt(to.x + dx, to.y + dy)
  IN  IF valid_destination(lv, to, drill, drilled)
      THEN [ok |-> TRUE,
            pos |-> IF wheels THEN to2 ELSE to,
            new_wrapped |-> would_wrap(lv, drone, to),
            new_drilled |-> {}]
      ELSE None

step_move(lv, drone, from, dx, dy, wheels, drill, drilled) ==
  LET to == Pt(from.x + dx, from.y + dy)
      to2 == Pt(to.x + dx, to.y + dy)
      first == valid_destination(lv, to, drill, drilled)
      second == wheels /\ valid_destination(lv, to2, drill, drilled)
      drilled1 == IF drill /\ to \notin drilled /\ ~walkable(lv, to.x, to.y)
                  THEN {to} ELSE {}
      drilled2 == IF /\ second
                     /\ drill /\ to2 \notin drilled
                     /\ valid(lv, to2.x, to2.y) /\ ~walkable(lv, to2.x, to2.y)
                  THEN {to2} ELSE {}
  IN  IF first
      THEN [ok |-> TRUE,
            pos |-> IF second THEN to2 ELSE to,
            new_wrapped |-> would_wrap(lv, drone, to)
                            \cup (IF second THEN would_wrap(lv, drone, to2) ELSE {}),
            new_drilled |-> drilled1 \cup drilled2]
      ELSE None

\* step_jump going to the first beacon whatever the index.
step_jump_first(lv, drone, beakon_idx) ==
  IF beakon_idx < Len(lv.beakons)
  THEN [ok |-> TRUE, pos |-> lv.beakons[1],
        new_wrapped |-> would_wrap(lv, drone, lv.beakons[1]),
        new_drilled |-> {}]
  ELSE None

step_jump(lv, drone, beakon_idx) ==
  IF beakon_idx < Len(lv.beakons)
  THEN LET to == lv.beakons[beakon_idx + 1]
       IN  [ok |-> TRUE, pos |-> to,
            new_wrapped |-> would_wrap(lv, drone, to),
            new_drilled |-> {}]
  ELSE None

step(lv, drone, from, action, wheels, drill, drilled) ==
  CASE action = "LEFT"  -> step_move(lv, drone, from, -1, 0, wheels, drill, drilled)
    [] action = "RIGHT" -> step_move(lv, drone, from, 1, 0, wheels, drill, drilled)
    [] action = "UP"    -> step_move(lv, drone, from, 0, 1, wheels, drill, drilled)
    [] action = "DOWN"  -> step_move(lv, drone, from, 0, -1, wheels, drill, drilled)
    [] action = "JUMP0" -> step_jump(lv, drone, 0)
    [] action = "JUMP1" -> step_jump(lv, drone, 1)
    [] action = "JUMP2" -> step_jump(lv, drone, 2)

----------------------------------------------------------------------------
(* Parser: build_level, weights and zones (src/src/parser.rs) *)

MaxOf(S) == CHOOSE m \in S : \A n \in S : n <= m

level_height(walls) == MaxOf({p.y : p \in walls}) + 1

level_width(walls) == MaxOf({p.x : p \in walls})

toggle(last_cell) == IF last_cell = EMPTY THEN BLOCKED ELSE EMPTY

RECURSIVE build_scan(_, _, _, _, _, _)
\* The two nested loops of build_level, one cell (index i, row-major) per call:
\* the result is the grid, the count of EMPTY cells pushed, and whether every
\* assert_eq at the end of a row held.
build_scan(walls, width, height, i, last_cell, acc) ==
  IF i >= width * height THEN acc
  ELSE LET x == i % width
           y == i \div width
           before == IF x = 0 THEN BLOCKED ELSE last_cell
           cell == IF Pt(x, y) \in walls THEN toggle(before) ELSE before
           row_ok == x + 1 < width \/ ((Pt(width, y) \in walls) <=> (cell = EMPTY))
       IN  build_scan(walls, width, height, i + 1, cell,
                      [grid |-> acc.grid @@ (i :> cell),
                       empty |-> IF cell = EMPTY THEN acc.empty + 1 ELSE acc.empty,
                       ok |-> acc.ok /\ row_ok])

Neighbours8 ==
  <<Pt(0, 1), Pt(0, -1), Pt(-1, 0), Pt(1, 0), Pt(1, 1), Pt(-1, -1), Pt(-1, 1), Pt(1, -1)>>

weights(grid, width, height) ==
  [i \in 0..(width * height - 1) |->
     LET x == i % width
         y == i \div width
     IN  Cardinality({k \in DOMAIN Neighbours8 :
           LET x2 == x + Neighbours8[k].x
               y2 == y + Neighbours8[k].y
           IN  /\ x2 >= 0 /\ x2 < width /\ y2 >= 0 /\ y2 < height
               /\ grid[x2 + y2 * width] = BLOCKED})]

RECURSIVE zones_fill_lifo(_, _, _, _, _)
\* The fill with the neighbours pushed to the front of the queue.
zones_fill_lifo(queue, acc, grid, width, height) ==
  IF queue = <<>> THEN acc
  ELSE LET p == Head(queue).p
           zone == Head(queue).zone
           idx == p.x + p.y * width
       IN  IF acc.zones[idx] = UNDECIDED_ZONE /\ grid[idx] = EMPTY
           THEN zones_fill_lifo(
                  (IF p.y + 1 < height THEN <<[p |-> Pt(p.x, p.y + 1), zone |-> zone]>> ELSE <<>>)
                    \o (IF p.y > 0 THEN <<[p |-> Pt(p.x, p.y - 1), zone |-> zone]>> ELSE <<>>)
                    \o (IF p.x + 1 < width THEN <<[p |-> Pt(p.x + 1, p.y), zone |-> zone]>> ELSE <<>>)
                    \o (IF p.x > 0 THEN <<[p |-> Pt(p.x - 1, p.y), zone |-> zone]>> ELSE <<>>)
                    \o Tail(queue),
                  [zones |-> [acc.zones EXCEPT ![idx] = zone],
                   zones_empty |-> [acc.zones_empty EXCEPT ![zone] = @ + 1]],
                  grid, width, height)
           ELSE zones_fill_lifo(Tail(queue), acc, grid, width, height)
RECURSIVE zones_fill(_, _, _, _, _)
\* The second loop of zones: the multi-source flood fill over the FIFO queue.
zones_fill(queue, acc, grid, width, height) ==
  IF queue = <<>> THEN acc
  ELSE LET p == Head(queue).p
           zone == Head(queue).zone
           idx == p.x + p.y * width
       IN  IF acc.zones[idx] = UNDECIDED_ZONE /\ grid[idx] = EMPTY
           THEN zones_fill(
                  Tail(queue)
                    \o (IF p.y + 1 < height THEN <<[p |-> Pt(p.x, p.y + 1), zone |-> zone]>> ELSE <<>>)
                    \o (IF p.y > 0 THEN <<[p |-> Pt(p.x, p.y - 1), zone |-> zone]>> ELSE <<>>)
                    \o (IF p.x + 1 < width THEN <<[p |-> Pt(p.x + 1, p.y), zone |-> zone]>> ELSE <<>>)
                    \o (IF p.x > 0 THEN <<[p |-> Pt(p.x - 1, p.y), zone |-> zone]>> ELSE <<>>),
                  [zones |-> [acc.zones EXCEPT ![idx] = zone],
                   zones_empty |-> [acc.zones_empty EXCEPT ![zone] = @ + 1]],
                  grid, width, height)
           ELSE zones_fill(Tail(queue), acc, grid, width, height)

\* zones(zones_count, ...): the first loop draws cells from a seeded generator
\* until zones_count distinct EMPTY cells are queued; `seeds` is that queue, in
\* order (seed i gets zone i - 1), drawn by Init from every such sequence.
zones(seeds, grid, width, height) ==
  zones_fill([i \in DOMAIN seeds |-> [p |-> seeds[i], zone |-> i - 1]],
             [zones |-> [i \in 0..(width * height - 1) |-> UNDECIDED_ZONE],
              zones_empty |-> [z \in 0..(Len(seeds) - 1) |-> 0]],
             grid, width, height)

build_level(walls, seeds) ==
  LET height == level_height(walls)
      width == level_width(walls)
      scan == build_scan(walls, width, height, 0, BLOCKED,
                         [grid |-> <<>>, empty |-> 0, ok |-> TRUE])
      z == zones(seeds, scan.grid, width, height)
  IN  [grid |-> scan.grid, weights |-> weights(scan.grid, width, height),
       zones |-> z.zones, width |-> width, height |-> height,
       empty |-> scan.empty, zones_empty |-> z.zones_empty,
       spawns |-> {}, beakons |-> <<>>, bonuses |-> <<>>, collected |-> <<>>]

\* The cells a seed may be drawn from, and the assertion of build_level.
EmptyCells(walls) ==
  LET height == level_height(walls)
      width == level_width(walls)
      scan == build_scan(walls, width, height, 0, BLOCKED,
                         [grid |-> <<>>, empty |-> 0, ok |-> TRUE])
  IN  {Pt(i % width, i \div width) : i \in {j \in DOMAIN scan.grid : scan.grid[j] = EMPTY}}

build_level_ok(walls) ==
  LET height == level_height(walls)
      width == level_width(walls)
  IN  /\ width > 0
      /\ build_scan(walls, width, height, 0, BLOCKED,
                    [grid |-> <<>>, empty |-> 0, ok |-> TRUE]).ok

\* A level description after the text has been split and matched: the walls
\* of all contours, the start point, the bonus map and the spawn points.
clones_count(desc) == Cardinality({p \in DOMAIN desc.bonuses : desc.bonuses[p] = CLONE})

parse_level(desc, seeds) ==
  [level |-> [build_level(desc.walls, seeds) EXCEPT
                !.bonuses = desc.bonuses, !.spawns = desc.spawns],
   drones |-> <<Drone_new(desc.start)>>]

----------------------------------------------------------------------------
(* Scoring functions handed to the search.  A rate is a record naming the    *)
(* function; choose_zone's closure carries the zones it captured.  Every     *)
(* rate of the code is a whole number, and a score rate / len is kept as the *)
(* exact fraction: f64 division is correctly rounded and monotone, and two   *)
(* distinct fractions of such small numbers never round to the same f64.     *)

find_clone_score(lv, drone, pos) ==
  IF pos \in DOMAIN lv.bonuses /\ lv.bonuses[pos] = CLONE THEN 1 ELSE 0

find_spawn_score(lv, drone, pos) == IF pos \in lv.spawns THEN 1 ELSE 0

max_wrapping(lv, drone, pos) ==
  IF get_zone(lv, pos.x, pos.y) # drone.zone THEN 0
  ELSE IF pos \in DOMAIN lv.bonuses THEN 100
  ELSE LET wrapped == would_wrap(lv, drone, pos)
       IN  SumOver(wrapped, [p \in wrapped |-> Max(1, lv.weights[grid_idx(lv, p.x, p.y)])])

\* The closure `rate` of choose_zone.
zone_rate(looking_in, lv, drone, pos) ==
  IF get_cell(lv, pos.x, pos.y) = EMPTY /\ get_zone(lv, pos.x, pos.y) \in looking_in
  THEN 1 ELSE 0

rate_apply(rate, lv, drone, pos) ==
  CASE rate.kind = "zone" -> zone_rate(rate.looking_in, lv, drone, pos)
    [] rate.kind = "clone" -> find_clone_score(lv, drone, pos)
    [] rate.kind = "spawn" -> find_spawn_score(lv, drone, pos)
    [] rate.kind = "max_wrapping" -> max_wrapping(lv, drone, pos)
    [] rate.kind = "table" -> IF pos \in DOMAIN rate.f THEN rate.f[pos] ELSE 0

----------------------------------------------------------------------------
(* Best-first exploration search: explore_impl *)

\* a / b > c / d for positive b and d.
score_gt(a, b) == a.num * b.den > b.num * a.den

explore_init(drone) ==
  [seen |-> {},
   queue |-> <<[plan |-> <<>>, pos |-> drone.pos, wheels |-> drone.wheels,
                drill |-> drone.drill, drilled |-> {}]>>,
   best |-> None,
   max_len |-> INITIAL_MAX_LEN,
   done |-> FALSE,
   result |-> None]

\* The successor pushed with the counters of its parent.
enqueue_undecayed(acc, node, action, r) ==
  IF r.ok /\ r.pos \notin acc.seen
  THEN [seen |-> acc.seen \cup {r.pos},
        queue |-> Append(acc.queue,
          [plan |-> Append(node.plan, action),
           pos |-> r.pos,
           wheels |-> node.wheels,
           drill |-> node.drill,
           drilled |-> node.drilled \cup r.new_drilled])]
  ELSE acc

\* `if seen.contains(&pos2) { continue; } seen.insert(pos2); queue.push_back(..)`
\* for the result r of one action from the node.
enqueue(acc, node, action, r) ==
  IF r.ok /\ r.pos \notin acc.seen
  THEN [seen |-> acc.seen \cup {r.pos},
        queue |-> Append(acc.queue,
          [plan |-> Append(node.plan, action),
           pos |-> r.pos,
           wheels |-> IF node.wheels > 1 THEN node.wheels - 1 ELSE 0,
           drill |-> IF node.drill > 1 THEN node.drill - 1 ELSE 0,
           drilled |-> node.drilled \cup r.new_drilled])]
  ELSE acc

RECURSIVE expand(_, _, _, _, _)
\* The for loop over the seven actions for one dequeued node: acc holds the
\* seen set and the queue, both updated action by action.
expand(lv, drone, node, i, acc) ==
  IF i > Len(Actions) THEN acc
  ELSE expand(lv, drone, node, i + 1,
              enqueue(acc, node, Actions[i],
                      step(lv, drone, node.pos, Actions[i],
                           node.wheels > 0, node.drill > 0, node.drilled)))

\* The score explore_impl gives a dequeued node.
node_score(lv, drone, rate, node) ==
  IF node.plan = <<>> THEN [num |-> 0, den |-> 1]
  ELSE [num |-> rate_apply(rate, lv, drone, node.pos), den |-> Len(node.plan)]

\* The cap test written with > for >=.
cap_break_late(st, node) == Len(node.plan) > st.max_len /\ st.best.ok

\* The cap test at the head of the loop body: TRUE when the loop breaks.
cap_break(st, node) == Len(node.plan) >= st.max_len /\ st.best.ok

\* The update of `best` taking a first score of zero.
better_or_equal(best, node, score) ==
  IF best.ok
  THEN (IF score_gt(score, best.score)
        THEN [ok |-> TRUE, plan |-> node.plan, pos |-> node.pos, score |-> score]
        ELSE best)
  ELSE (IF score.num >= 0
        THEN [ok |-> TRUE, plan |-> node.plan, pos |-> node.pos, score |-> score]
        ELSE best)

\* The update of `best` by a dequeued node with the given score.
better(best, node, score) ==
  IF best.ok
  THEN (IF score_gt(score, best.score)
        THEN [ok |-> TRUE, plan |-> node.plan, pos |-> node.pos, score |-> score]
        ELSE best)
  ELSE (IF score.num > 0
        THEN [ok |-> TRUE, plan |-> node.plan, pos |-> node.pos, score |-> score]
        ELSE best)

\* The search state after a node has been scored and expanded.
iterated(grown, best, max_len) ==
  [seen |-> grown.seen, queue |-> grown.queue, best |-> best,
   max_len |-> max_len, done |-> FALSE, result |-> None]

\* One iteration of the `loop` of explore_impl.
explore_iter(lv, drone, rate, st) ==
  IF st.queue = <<>>
  THEN [st EXCEPT !.done = TRUE, !.result = st.best]
  ELSE IF cap_break(st, Head(st.queue))
  THEN [st EXCEPT !.queue = Tail(st.queue), !.done = TRUE, !.result = st.best]
  ELSE iterated(expand(lv, drone, Head(st.queue), 1,
                       [seen |-> st.seen, queue |-> Tail(st.queue)]),
                better(st.best, Head(st.queue),
                       node_score(lv, drone, rate, Head(st.queue))),
                IF Len(Head(st.queue).plan) >= st.max_len
                THEN st.max_len + 5 ELSE st.max_len)

RECURSIVE explore_loop(_, _, _, _)
explore_loop(lv, drone, rate, st) ==
  IF st.done THEN st.result
  ELSE explore_loop(lv, drone, rate, explore_iter(lv, drone, rate, st))

\* Option<(VecDeque<Action>, Point, f64)>: None, or [ok, plan, pos, score].
explore_impl(lv, drone, rate) == explore_loop(lv, drone, rate, explore_init(drone))

\* explore: the plan alone.
plan_of(r) == IF r.ok THEN [ok |-> TRUE, plan |-> r.plan] ELSE None

explore(lv, drone, rate) == plan_of(explore_impl(lv, drone, rate))

explore_clone(lv, drone, idx) ==
  IF /\ idx = 0
     /\ \E p \in DOMAIN lv.bonuses : lv.bonuses[p] = CLONE
     /\ get_or(lv.collected, CLONE, 0) = 0
  THEN explore(lv, drone, [kind |-> "clone"])
  ELSE None

explore_spawn(lv, drone, idx) ==
  IF idx = 0 /\ get_or(lv.collected, CLONE, 0) > 0
  THEN explore(lv, drone, [kind |-> "spawn"])
  ELSE None

----------------------------------------------------------------------------
(* Drone operations.  An operation that the code lets fail returns a record  *)
(* with ok (Option / bool) or panic (a fatal abort) beside the new values.   *)

\* solve_impl without the initial wrap.
wrap_bot_skipped(drone, lv) == lv
wrap_bot(drone, lv) == wrap_all(lv, would_wrap(lv, drone, drone.pos))

\* `if let Some((plan, pos, _)) = explore_impl(..) { .. } else { panic!(..) }`
adopt_zone(drone, lv, r) ==
  IF r.ok
  THEN [panic |-> FALSE, chose |-> TRUE,
        drone |-> [drone EXCEPT !.zone = get_zone(lv, r.pos.x, r.pos.y),
                                !.plan = r.plan]]
  ELSE [panic |-> TRUE, chose |-> FALSE, drone |-> drone]

\* choose_zone looking in every zone that is not exhausted, taken or not.
choose_zone_any(drone, taken, lv) ==
  IF drone.zone = UNDECIDED_ZONE \/ lv.zones_empty[drone.zone] = 0
  THEN LET not_empty == {z \in DOMAIN lv.zones_empty : lv.zones_empty[z] > 0}
       IN  adopt_zone(drone, lv,
             explore_impl(lv, drone, [kind |-> "zone", looking_in |-> not_empty]))
  ELSE [panic |-> FALSE, chose |-> FALSE, drone |-> drone]
choose_zone(drone, taken, lv) ==
  IF drone.zone = UNDECIDED_ZONE \/ lv.zones_empty[drone.zone] = 0
  THEN LET not_empty == {z \in DOMAIN lv.zones_empty : lv.zones_empty[z] > 0}
           not_taken == {z \in not_empty : \A i \in DOMAIN taken : taken[i] # z}
           looking_in == IF not_taken # {} THEN not_taken ELSE not_empty
       IN  adopt_zone(drone, lv,
             explore_impl(lv, drone, [kind |-> "zone", looking_in |-> looking_in]))
  ELSE [panic |-> FALSE, chose |-> FALSE, drone |-> drone]

collect(drone, lv) ==
  IF drone.pos \in DOMAIN lv.bonuses
  THEN LET bonus == lv.bonuses[drone.pos]
       IN  [lv EXCEPT
              !.collected = IF bonus \in DOMAIN lv.collected
                            THEN [lv.collected EXCEPT ![bonus] = @ + 1]
                            ELSE lv.collected @@ (bonus :> 1),
              !.bonuses = [p \in DOMAIN lv.bonuses \ {drone.pos} |-> lv.bonuses[p]]]
  ELSE lv

wear_off(drone) ==
  [drone EXCEPT !.wheels = IF @ > 0 THEN @ - 1 ELSE @,
                !.drill = IF @ > 0 THEN @ - 1 ELSE @]

\* has_space over three cells, `(1..4)`.
has_space_three(drone, lv) ==
  \/ \A i \in 1..3 : valid(lv, drone.pos.x, drone.pos.y + i)
                     /\ get_cell(lv, drone.pos.x, drone.pos.y + i) # BLOCKED
  \/ \A i \in 1..3 : valid(lv, drone.pos.x, drone.pos.y - i)
                     /\ get_cell(lv, drone.pos.x, drone.pos.y - i) # BLOCKED
  \/ \A i \in 1..3 : valid(lv, drone.pos.x + i, drone.pos.y)
                     /\ get_cell(lv, drone.pos.x + i, drone.pos.y) # BLOCKED
  \/ \A i \in 1..3 : valid(lv, drone.pos.x - i, drone.pos.y)
                     /\ get_cell(lv, drone.pos.x - i, drone.pos.y) # BLOCKED
has_space(drone, lv) ==
  \/ \A i \in 1..4 : valid(lv, drone.pos.x, drone.pos.y + i)
                     /\ get_cell(lv, drone.pos.x, drone.pos.y + i) # BLOCKED
  \/ \A i \in 1..4 : valid(lv, drone.pos.x, drone.pos.y - i)
                     /\ get_cell(lv, drone.pos.x, drone.pos.y - i) # BLOCKED
  \/ \A i \in 1..4 : valid(lv, drone.pos.x + i, drone.pos.y)
                     /\ get_cell(lv, drone.pos.x + i, drone.pos.y) # BLOCKED
  \/ \A i \in 1..4 : valid(lv, drone.pos.x - i, drone.pos.y)
                     /\ get_cell(lv, drone.pos.x - i, drone.pos.y) # BLOCKED

activate_wheels(drone, lv) ==
  IF /\ get_or(lv.collected, WHEELS, 0) > 0
     /\ drone.wheels = 0
     /\ has_space(drone, lv)
  THEN [ok |-> TRUE,
        level |-> [lv EXCEPT !.collected = update(@, WHEELS, -1)],
        drone |-> [drone EXCEPT !.wheels = WHEELS_TIME, !.path = Append(@, <<"F">>)]]
  ELSE [ok |-> FALSE, level |-> lv, drone |-> drone]

activate_drill(drone, lv) ==
  IF /\ get_or(lv.collected, DRILL, 0) > 0
     /\ drone.drill = 0
  THEN [ok |-> TRUE,
        level |-> [lv EXCEPT !.collected = update(@, DRILL, -1)],
        drone |-> [drone EXCEPT !.drill = DRILL_TIME, !.path = Append(@, <<"L">>)]]
  ELSE [ok |-> FALSE, level |-> lv, drone |-> drone]

\* activate_hand without its `update(&mut level.collected, Bonus::HAND, -1)`.
activate_hand_free(drone, lv) ==
  IF get_or(lv.collected, HAND, 0) > 0
  THEN LET new_hand == Pt(1, drone.hands[Len(drone.hands)].y + 1)
       IN  [ok |-> TRUE,
            level |-> lv,
            drone |-> [drone EXCEPT !.path = Append(@, <<"B", new_hand.x, new_hand.y>>),
                                    !.hands = Append(@, new_hand)]]
  ELSE [ok |-> FALSE, level |-> lv, drone |-> drone]
activate_hand(drone, lv) ==
  IF get_or(lv.collected, HAND, 0) > 0
  THEN LET new_hand == Pt(1, drone.hands[Len(drone.hands)].y + 1)
       IN  [ok |-> TRUE,
            level |-> [lv EXCEPT !.collected = update(@, HAND, -1)],
            drone |-> [drone EXCEPT !.path = Append(@, <<"B", new_hand.x, new_hand.y>>),
                                    !.hands = Append(@, new_hand)]]
  ELSE [ok |-> FALSE, level |-> lv, drone |-> drone]

\* set_beakon without the test of the distance to the placed beacons.
set_beakon_anywhere(drone, lv) ==
  IF get_or(lv.collected, TELEPORT, 0) > 0
  THEN [ok |-> TRUE,
        level |-> [lv EXCEPT !.collected = update(@, TELEPORT, -1),
                             !.beakons = Append(@, drone.pos)],
        drone |-> [drone EXCEPT !.path = Append(@, <<"R">>)]]
  ELSE [ok |-> FALSE, level |-> lv, drone |-> drone]
set_beakon(drone, lv) ==
  IF /\ get_or(lv.collected, TELEPORT, 0) > 0
     /\ \A i \in DOMAIN lv.beakons :
          Abs(lv.beakons[i].x - drone.pos.x) + Abs(lv.beakons[i].y - drone.pos.y)
            >= BEAKON_DIST
  THEN [ok |-> TRUE,
        level |-> [lv EXCEPT !.collected = update(@, TELEPORT, -1),
                             !.beakons = Append(@, drone.pos)],
        drone |-> [drone EXCEPT !.path = Append(@, <<"R">>)]]
  ELSE [ok |-> FALSE, level |-> lv, drone |-> drone]

\* reduplicate without `level.spawns.contains(&self.pos)`.
reduplicate_anywhere(drone, lv) ==
  IF get_or(lv.collected, CLONE, 0) > 0
  THEN [ok |-> TRUE,
        level |-> [lv EXCEPT !.collected = update(@, CLONE, -1)],
        drone |-> [drone EXCEPT !.path = Append(@, <<"C">>)],
        clone |-> Drone_new(drone.pos)]
  ELSE [ok |-> FALSE, level |-> lv, drone |-> drone, clone |-> drone]
reduplicate(drone, lv) ==
  IF get_or(lv.collected, CLONE, 0) > 0 /\ drone.pos \in lv.spawns
  THEN [ok |-> TRUE,
        level |-> [lv EXCEPT !.collected = update(@, CLONE, -1)],
        drone |-> [drone EXCEPT !.path = Append(@, <<"C">>)],
        clone |-> Drone_new(drone.pos)]
  ELSE [ok |-> FALSE, level |-> lv, drone |-> drone, clone |-> drone]

\* The command act appends for an action.
command(action, lv) ==
  CASE action = "UP" -> <<"W">>
    [] action = "DOWN" -> <<"S">>
    [] action = "LEFT" -> <<"A">>
    [] action = "RIGHT" -> <<"D">>
    [] action = "JUMP0" -> <<"T", lv.beakons[1].x, lv.beakons[1].y>>
    [] action = "JUMP1" -> <<"T", lv.beakons[2].x, lv.beakons[2].y>>
    [] action = "JUMP2" -> <<"T", lv.beakons[3].x, lv.beakons[3].y>>

\* act without its loop over new_drilled.
apply_step_undrilled(drone, action, lv, r) ==
  IF ~r.ok
  THEN [panic |-> "Unwalkable", level |-> lv, drone |-> drone]
  ELSE IF \E p \in r.new_wrapped : ~wrap_cell_ok(lv, p)
  THEN [panic |-> "wrap_cell assertion", level |-> lv, drone |-> drone]
  ELSE [panic |-> "",
        level |-> wrap_all(lv, r.new_wrapped),
        drone |-> [drone EXCEPT !.pos = r.pos,
                                !.path = Append(@, command(action, lv))]]
\* What act does with the result r of step.
apply_step(drone, action, lv, r) ==
  IF ~r.ok
  THEN [panic |-> "Unwalkable", level |-> lv, drone |-> drone]
  ELSE IF \E p \in r.new_wrapped : ~wrap_cell_ok(lv, p)
  THEN [panic |-> "wrap_cell assertion", level |-> lv, drone |-> drone]
  ELSE IF \E p \in r.new_drilled : ~drill_cell_ok(wrap_all(lv, r.new_wrapped), p)
  THEN [panic |-> "drill_cell assertion", level |-> lv, drone |-> drone]
  ELSE [panic |-> "",
        level |-> drill_all(wrap_all(lv, r.new_wrapped), r.new_drilled),
        drone |-> [drone EXCEPT !.pos = r.pos,
                                !.path = Append(@, command(action, lv))]]

\* act: panic is "" when the action was applied, else the message of the
\* panic!() or the failed assertion.
act(drone, action, lv) ==
  apply_step(drone, action, lv,
             step(lv, drone, drone.pos, action, drone.wheels > 0, drone.drill > 0, {}))

----------------------------------------------------------------------------
(* solve_impl: one scheduling turn (the body of the for loop) *)

Ended(lv, ds) == [panic |-> "", level |-> lv, drones |-> ds]

Panicked(msg, lv, ds) == [panic |-> msg, level |-> lv, drones |-> ds]

acted(lv, ds, idx, a) ==
  IF a.panic # "" THEN Panicked(a.panic, lv, ds)
  ELSE Ended(a.level, [ds EXCEPT ![idx + 1] = a.drone])

\* A drone without a plan coasting on its wheels without a command.
execute_silent(lv, ds, idx, drone) ==
  IF drone.plan # <<>>
  THEN acted(lv, ds, idx, act([drone EXCEPT !.plan = Tail(@)], Head(drone.plan), lv))
  ELSE IF drone.wheels > 0
  THEN Ended(lv, [ds EXCEPT ![idx + 1] = drone])
  ELSE Panicked("Nothing to do", lv, ds)

\* `if let Some(action) = drone.plan.pop_front() ... else ...`
execute(lv, ds, idx, drone) ==
  IF drone.plan # <<>>
  THEN acted(lv, ds, idx, act([drone EXCEPT !.plan = Tail(@)], Head(drone.plan), lv))
  ELSE IF drone.wheels > 0
  THEN Ended(lv, [ds EXCEPT ![idx + 1] = [drone EXCEPT !.path = Append(@, <<"Z">>)]])
  ELSE Panicked("Nothing to do", lv, ds)

\* The || chain with drill tried before wheels.
activate_drill_first(drone, lv) ==
  LET aw == activate_wheels(drone, lv)
      ad == activate_drill(drone, lv)
      ah == activate_hand(drone, lv)
      sb == set_beakon(drone, lv)
  IN  IF ad.ok THEN ad ELSE IF aw.ok THEN aw ELSE IF ah.ok THEN ah ELSE sb
\* The first activation that applies, tried in the order of the || chain.
activate(drone, lv) ==
  LET aw == activate_wheels(drone, lv)
      ad == activate_drill(drone, lv)
      ah == activate_hand(drone, lv)
      sb == set_beakon(drone, lv)
  IN  IF aw.ok THEN aw ELSE IF ad.ok THEN ad ELSE IF ah.ok THEN ah ELSE sb

or_else(a, b) == IF a.ok THEN a ELSE b

\* explore_clone(..).or_else(explore_spawn).or_else(explore(max_wrapping))
find_plan(lv, drone, idx) ==
  or_else(explore_clone(lv, drone, idx),
          or_else(explore_spawn(lv, drone, idx),
                  explore(lv, drone, [kind |-> "max_wrapping"])))

\* `if let Some(plan) = .. { drone.plan = plan; }`
with_plan(drone, plan) == IF plan.ok THEN [drone EXCEPT !.plan = plan.plan] ELSE drone

\* After no activation applied: search for a plan, then execute.
activated(lv, ds, idx, drone, av) ==
  IF av.ok THEN Ended(av.level, [ds EXCEPT ![idx + 1] = av.drone])
  ELSE execute(lv, ds, idx, with_plan(drone, find_plan(lv, drone, idx)))

reduplicated(lv, ds, idx, drone, rd) ==
  IF rd.ok THEN Ended(rd.level, Append([ds EXCEPT ![idx + 1] = rd.drone], rd.clone))
  ELSE activated(lv, ds, idx, drone, activate(drone, lv))

\* `if drone.plan.is_empty() { ... }` and what follows it.
decide(lv, ds, idx, drone) ==
  IF drone.plan = <<>>
  THEN reduplicated(lv, ds, idx, drone, reduplicate(drone, lv))
  ELSE execute(lv, ds, idx, drone)

zone_chosen(lv, lv1, ds, idx, cz) ==
  IF cz.panic THEN Panicked("No zone left to choose", lv, ds)
  ELSE decide(lv1, ds, idx, cz.drone)

\* The body of `for drone_idx in 0..drones.len()` after the break test.
turn(lv, ds, idx) ==
  zone_chosen(lv, collect(ds[idx + 1], lv), ds, idx,
              choose_zone(wear_off(ds[idx + 1]),
                          [i \in DOMAIN ds |-> ds[i].zone],
                          collect(ds[idx + 1], lv)))

----------------------------------------------------------------------------
(* The levels a run starts from *)

MaxW == 3
MaxH == 2

\* The walls of a w x h rectangle.
RectWalls(w, h) == {Pt(0, y) : y \in 0..(h - 1)} \cup {Pt(w, y) : y \in 0..(h - 1)}

\* A rectangle with the single-cell obstacle at o (strictly inside its row).
ObstacleWalls(w, h, o) == RectWalls(w, h) \cup {o, Pt(o.x + 1, o.y)}

Desc(walls, start, bonuses, spawns) ==
  [walls |-> walls, start |-> start, bonuses |-> bonuses, spawns |-> spawns]

\* Rooms without bonuses: every rectangle within the bounds, with or without
\* an obstacle, from every start cell.
Rooms ==
  UNION {
    {Desc(walls, start, <<>>, {}) :
       walls \in {RectWalls(w, h)}
                 \cup {ObstacleWalls(w, h, Pt(ox, oy)) : ox \in 1..(w - 2), oy \in 0..(h - 1)},
       start \in {Pt(x, y) : x \in 0..(w - 1), y \in 0..(h - 1)}} :
    w \in 1..MaxW, h \in 1..MaxH}

Descs == {d \in Rooms : d.start \in EmptyCells(d.walls)}

\* A 5 x 3 room with a Clone and a Wheels booster and one spawn point.
Stranded ==
  Desc(RectWalls(5, 3), Pt(1, 1),
       (Pt(0, 1) :> CLONE) @@ (Pt(0, 2) :> WHEELS),
       {Pt(1, 2)})

\* A 5 x 2 room with one obstacle, a Clone, a Drill and a Wheels booster and
\* one spawn point.
Tunnel ==
  Desc(ObstacleWalls(5, 2, Pt(2, 0)), Pt(4, 0),
       (Pt(1, 0) :> CLONE) @@ (Pt(3, 1) :> DRILL) @@ (Pt(0, 1) :> WHEELS),
       {Pt(4, 1)})

\* A 7 x 3 room with three obstacles, a Clone, a Drill and two Wheels
\* boosters and one spawn point.
Overshoot ==
  Desc(RectWalls(7, 3)
         \cup {Pt(4, 2), Pt(5, 2)}
         \cup {Pt(1, 1), Pt(2, 1)} \cup {Pt(4, 1), Pt(5, 1)},
       Pt(5, 0),
       (Pt(4, 0) :> CLONE) @@ (Pt(3, 1) :> DRILL)
         @@ (Pt(2, 0) :> WHEELS) @@ (Pt(1, 0) :> WHEELS),
       {Pt(5, 1)})

\* A 2 x 5 room with a Hand booster on the start cell and two Teleport
\* boosters.
Workshop ==
  Desc(RectWalls(2, 5), Pt(0, 0),
       (Pt(0, 0) :> HAND) @@ (Pt(0, 2) :> TELEPORT) @@ (Pt(0, 3) :> TELEPORT),
       {})

\* A 9 x 1 room with a Teleport booster on the start cell in its middle.
Siding ==
  Desc(RectWalls(9, 1), Pt(4, 0), (Pt(4, 0) :> TELEPORT), {})

RECURSIVE SeqsOfDistinct(_, _)
\* Every sequence of n distinct elements of S.
SeqsOfDistinct(S, n) ==
  IF n = 0 THEN {<<>>}
  ELSE UNION {{Append(q, e) : e \in S \ {q[i] : i \in DOMAIN q}} :
              q \in SeqsOfDistinct(S, n - 1)}

\* What parse_level is run on: a level description and the zone seeds that
\* the generator of zones() yields for it. The generator is a library outside
\* this source, so a level takes every sequence of distinct EMPTY cells.
Inputs ==
  UNION {{[desc |-> d, seeds |-> q] :
            q \in SeqsOfDistinct(EmptyCells(d.walls), clones_count(d) + 1)} :
         d \in Descs \cup {Tunnel, Stranded, Overshoot, Workshop, Siding}}

NoCall == [op |-> "none"]

----------------------------------------------------------------------------
(* solve_impl as a state machine *)

\* The loop tests written `level.empty > 1` and `level.empty <= 1`.
Continue_one_left(lv, ds, next_idx, len) ==
  IF lv.empty <= 1 THEN [pc |-> "done", drone_idx |-> next_idx, round_len |-> len]
  ELSE IF next_idx < len THEN [pc |-> "turn", drone_idx |-> next_idx, round_len |-> len]
  ELSE [pc |-> "turn", drone_idx |-> 0, round_len |-> Len(ds)]

\* Where control stands once a turn (or the initial wrap) has ended: the
\* `while level.empty > 0` test, the for loop's next index and its
\* `if level.empty <= 0 { break; }`.
Continue(lv, ds, next_idx, len) ==
  IF lv.empty <= 0 THEN [pc |-> "done", drone_idx |-> next_idx, round_len |-> len]
  ELSE IF next_idx < len THEN [pc |-> "turn", drone_idx |-> next_idx, round_len |-> len]
  ELSE [pc |-> "turn", drone_idx |-> 0, round_len |-> Len(ds)]

\* solve() has parsed the task: parse_level's Level and its one drone.
Parsed(parsed) ==
  /\ level = parsed.level
  /\ drones = parsed.drones
  /\ pc = "start"
  /\ drone_idx = 0
  /\ round_len = 0
  /\ call = NoCall

\* A hall long enough for two beacons, with three Teleport boosters: set_beakon
\* wants a new beacon BEAKON_DIST or more away from every placed one.
HallLen == BEAKON_DIST + 10

HallDesc ==
  Desc(RectWalls(HallLen, 1), Pt(0, 0),
       (Pt(0, 0) :> TELEPORT) @@ (Pt(20, 0) :> TELEPORT) @@ (Pt(30, 0) :> TELEPORT),
       {})

\* parse_level(HallDesc, <<Pt(0, 0)>>), written out: one row without BLOCKED
\* cells, in one zone.
Hall ==
  [level |-> [grid |-> [i \in 0..(HallLen - 1) |-> EMPTY],
              weights |-> [i \in 0..(HallLen - 1) |-> 0],
              zones |-> [i \in 0..(HallLen - 1) |-> 0],
              width |-> HallLen, height |-> 1,
              empty |-> HallLen, zones_empty |-> [z \in {0} |-> HallLen],
              spawns |-> HallDesc.spawns, beakons |-> <<>>,
              bonuses |-> HallDesc.bonuses, collected |-> <<>>],
   drones |-> <<Drone_new(HallDesc.start)>>]

\* A gallery with a Wheels booster on the start cell near its right end, the
\* left side too long to be crossed twice on one set of wheels.
GalleryLen == WHEELS_TIME + 6

GalleryDesc ==
  Desc(RectWalls(GalleryLen, 1), Pt(GalleryLen - 4, 0),
       (Pt(GalleryLen - 4, 0) :> WHEELS), {})

\* parse_level(GalleryDesc, <<GalleryDesc.start>>), written out.
Gallery ==
  [level |-> [grid |-> [i \in 0..(GalleryLen - 1) |-> EMPTY],
              weights |-> [i \in 0..(GalleryLen - 1) |-> 0],
              zones |-> [i \in 0..(GalleryLen - 1) |-> 0],
              width |-> GalleryLen, height |-> 1,
              empty |-> GalleryLen, zones_empty |-> [z \in {0} |-> GalleryLen],
              spawns |-> GalleryDesc.spawns, beakons |-> <<>>,
              bonuses |-> GalleryDesc.bonuses, collected |-> <<>>],
   drones |-> <<Drone_new(GalleryDesc.start)>>]

\* A shaft one cell wide with one cell of it walled up and a way round the
\* wall on its left; the drone starts on a Drill booster under the wall.
BypassHeight == DRILL_TIME \div 2 + 2

BypassWall == Pt(1, 3)

BypassOpen ==
  ({Pt(1, y) : y \in 0..(BypassHeight - 1)} \ {BypassWall})
    \cup {Pt(0, BypassWall.y + dy) : dy \in {-1, 0, 1}}

BypassDesc ==
  Desc({p \in {Pt(x, y) : x \in 0..2, y \in 0..(BypassHeight - 1)} :
          (p \in BypassOpen) # (Pt(p.x - 1, p.y) \in BypassOpen)},
       Pt(1, BypassWall.y - 1), (Pt(1, BypassWall.y - 1) :> DRILL), {})

\* parse_level(BypassDesc, <<BypassDesc.start>>), written out.
Bypass ==
  LET grid == [i \in 0..(2 * BypassHeight - 1) |->
                 IF Pt(i % 2, i \div 2) \in BypassOpen THEN EMPTY ELSE BLOCKED]
  IN  [level |-> [grid |-> grid,
                  weights |-> weights(grid, 2, BypassHeight),
                  zones |-> [i \in DOMAIN grid |->
                               IF grid[i] = EMPTY THEN 0 ELSE UNDECIDED_ZONE],
                  width |-> 2, height |-> BypassHeight,
                  empty |-> Cardinality(BypassOpen),
                  zones_empty |-> [z \in {0} |-> Cardinality(BypassOpen)],
                  spawns |-> BypassDesc.spawns, beakons |-> <<>>,
                  bonuses |-> BypassDesc.bonuses, collected |-> <<>>],
       drones |-> <<Drone_new(BypassDesc.start)>>]

Init ==
  \/ \E in \in Inputs :
       /\ build_level_ok(in.desc.walls)
       /\ Parsed(parse_level(in.desc, in.seeds))
  \/ Parsed(Hall)
  \/ Parsed(Gallery)
  \/ Parsed(Bypass)

\* `drones[0].wrap_bot(level)` and the first test of the while loop.
Start ==
  /\ pc = "start"
  /\ LET lv == wrap_bot(drones[1], level)
         c == Continue(lv, drones, 0, Len(drones))
     IN  /\ level' = lv
         /\ pc' = c.pc
         /\ drone_idx' = c.drone_idx
         /\ round_len' = c.round_len
  /\ UNCHANGED <<drones, call>>

\* One scheduling turn that ends normally.
Turn ==
  /\ pc = "turn"
  /\ \E r \in {turn(level, drones, drone_idx)} :
       /\ r.panic = ""
       /\ level' = r.level
       /\ drones' = r.drones
       /\ LET c == Continue(r.level, r.drones, drone_idx + 1, round_len)
          IN  /\ pc' = c.pc
              /\ drone_idx' = c.drone_idx
              /\ round_len' = c.round_len
  /\ UNCHANGED call

\* One scheduling turn that panics: solve_impl is aborted.
Abort ==
  /\ pc = "turn"
  /\ \E r \in {turn(level, drones, drone_idx)} :
       /\ r.panic # ""
       /\ pc' = r.panic
  /\ UNCHANGED <<level, drones, drone_idx, round_len, call>>

Next == Start \/ Turn \/ Abort

Spec == Init /\ [][Next]_vars

\* solve_impl under the scheduling of a running program: a statement that
\* can run does run. turn is a total function and every turn changes the
\* state (it appends to a path or aborts), so Turn \/ Abort is enabled exactly
\* when pc = "turn", and WF_vars(Turn \/ Abort) is the disjunction below.
FairSpec ==
  /\ Spec
  /\ WF_vars(Start)
  /\ ([]<>(pc # "turn") \/ []<><<Turn \/ Abort>>_vars)

----------------------------------------------------------------------------
(* step, called on its own *)

\* The level as the first statement of solve_impl leaves it.
Started(desc, seeds) ==
  wrap_bot(Drone_new(desc.start), parse_level(desc, seeds).level)

\* The rooms, and the level with an obstacle two cells from a wall.
RoomLevels ==
  {Started(d, <<d.start>>) : d \in Descs}
  \cup {Started(Tunnel, <<Pt(3, 1), Pt(4, 1)>>)}

\* A corridor long enough for three beacons: set_beakon wants a new beacon
\* BEAKON_DIST or more away from every placed one.
CorridorLen == 2 * BEAKON_DIST + 1

\* The corridor as parse_level builds it and the first statement of
\* solve_impl leaves it, the drone starting at its left end: one row without
\* BLOCKED cells in one zone, the first two cells wrapped.
Corridor ==
  [grid |-> [i \in 0..(CorridorLen - 1) |-> IF i <= 1 THEN WRAPPED ELSE EMPTY],
   weights |-> [i \in 0..(CorridorLen - 1) |-> 0],
   zones |-> [i \in 0..(CorridorLen - 1) |-> 0],
   width |-> CorridorLen, height |-> 1,
   empty |-> CorridorLen - 2, zones_empty |-> [z \in {0} |-> CorridorLen - 2],
   spawns |-> {}, beakons |-> <<>>, bonuses |-> <<>>, collected |-> <<>>]

BeakonCells == {Pt(0, 0), Pt(BEAKON_DIST, 0), Pt(2 * BEAKON_DIST, 0)}

\* The beacon lists set_beakon can have built in the corridor.
BeakonLists == UNION {SeqsOfDistinct(BeakonCells, n) : n \in 0..3}

BlockedCells(lv) == {p \in Cells(lv) : get_cell(lv, p.x, p.y) = BLOCKED}

\* The calls of step: a move from a cell a drone or a search node can stand
\* on (walkable, or drilled on the way), or a jump with the beacons placed.
MovesIn(lv, drilled) ==
  {[level |-> lv, from |-> from, action |-> a, wheels |-> w, drill |-> d,
    drilled |-> drilled] :
     from \in (Cells(lv) \ BlockedCells(lv)) \cup drilled,
     a \in Directional, w \in BOOLEAN, d \in BOOLEAN}

MoveCalls ==
  UNION {UNION {MovesIn(lv, drilled) : drilled \in SUBSET BlockedCells(lv)} :
         lv \in RoomLevels}

JumpCalls ==
  {[level |-> [Corridor EXCEPT !.beakons = b], from |-> from, action |-> a,
    wheels |-> w, drill |-> d, drilled |-> {}] :
     b \in BeakonLists, from \in BeakonCells \cup {Pt(1, 0)},
     a \in {"JUMP0", "JUMP1", "JUMP2"}, w \in BOOLEAN, d \in BOOLEAN}

StepInit ==
  \E c \in MoveCalls \cup JumpCalls :
    /\ level = c.level
    /\ drones = <<Drone_new(c.from)>>
    /\ pc = "step"
    /\ drone_idx = 0
    /\ round_len = 0
    /\ call = [op |-> "step", from |-> c.from, action |-> c.action,
               wheels |-> c.wheels, drill |-> c.drill, drilled |-> c.drilled,
               ret |-> None]

\* The call returns.
Step ==
  /\ pc = "step"
  /\ call' = [call EXCEPT !.ret = step(level, drones[1], call.from, call.action,
                                       call.wheels, call.drill, call.drilled)]
  /\ pc' = "stepped"
  /\ UNCHANGED <<level, drones, drone_idx, round_len>>

StepSpec == StepInit /\ [][Step]_vars

----------------------------------------------------------------------------
(* is_reaching and would_wrap, called on their own with extended hands *)

\* The last hand of the table of hand_blocker.
LAST_HAND == 19

ShaftWidth == 3
ShaftHeight == LAST_HAND + 2

\* A shaft as parse_level builds it: three columns high enough for the
\* longest hand, without BLOCKED cells or with the single-cell obstacle o in
\* the middle column, all EMPTY cells in one zone.
Shaft(obstacles) ==
  LET grid == [i \in 0..(ShaftWidth * ShaftHeight - 1) |->
                 IF Pt(i % ShaftWidth, i \div ShaftWidth) \in obstacles
                 THEN BLOCKED ELSE EMPTY]
      empty == ShaftWidth * ShaftHeight - Cardinality(obstacles)
  IN  [grid |-> grid,
       weights |-> weights(grid, ShaftWidth, ShaftHeight),
       zones |-> [i \in DOMAIN grid |-> IF grid[i] = EMPTY THEN 0 ELSE UNDECIDED_ZONE],
       width |-> ShaftWidth, height |-> ShaftHeight,
       empty |-> empty, zones_empty |-> [z \in {0} |-> empty],
       spawns |-> {}, beakons |-> <<>>, bonuses |-> <<>>, collected |-> <<>>]

\* The hands of a drone after activate_hand has run n times.
RECURSIVE HandsAfter(_)
HandsAfter(n) ==
  IF n = 0 THEN DefaultHands
  ELSE LET hands == HandsAfter(n - 1)
       IN  Append(hands, Pt(1, hands[Len(hands)].y + 1))

\* The calls: a drone at the bottom of the left or the middle column, any
\* number of hand extensions up to the first that leaves the table, any place
\* of the obstacle but the drone's.
ReachCalls ==
  {[level |-> Shaft(o), from |-> from, hands |-> HandsAfter(n)] :
     o \in {{}} \cup {{Pt(1, y)} : y \in 0..(ShaftHeight - 1)},
     from \in {Pt(0, 0), Pt(1, 0)},
     n \in 0..LAST_HAND}

ReachInit ==
  \E c \in {c \in ReachCalls : c.from \notin BlockedCells(c.level)} :
    /\ level = c.level
    /\ drones = <<[Drone_new(c.from) EXCEPT !.hands = c.hands]>>
    /\ pc = "would_wrap"
    /\ drone_idx = 0
    /\ round_len = 0
    /\ call = [op |-> "would_wrap", from |-> c.from,
               hand |-> c.hands[Len(c.hands)], ret |-> None]

\* would_wrap returns; the blocker set and the verdict of is_reaching for the
\* drone's last hand are kept with its result.
Reach ==
  /\ pc = "would_wrap"
  /\ \A i \in DOMAIN drones[1].hands : hand_implemented(drones[1].hands[i])
  /\ call' = [call EXCEPT !.ret =
                [ok |-> TRUE,
                 blockers |-> hand_blocker(call.hand),
                 reaching |-> is_reaching(level, call.from, call.hand),
                 wrapped |-> would_wrap(level, drones[1], call.from)]]
  /\ pc' = "wrapped"
  /\ UNCHANGED <<level, drones, drone_idx, round_len>>

\* would_wrap reaches the `_ => unimplemented!()` of hand_blocker: the thread
\* panics.
Unimplemented ==
  /\ pc = "would_wrap"
  /\ \E i \in DOMAIN drones[1].hands : ~hand_implemented(drones[1].hands[i])
  /\ pc' = "not implemented"
  /\ UNCHANGED <<level, drones, drone_idx, round_len, call>>

ReachNext == Reach \/ Unimplemented

ReachSpec == ReachInit /\ [][ReachNext]_vars

----------------------------------------------------------------------------
(* explore_impl, called on its own, one iteration of its loop per step *)

MaxLen == 13

\* A corridor of MaxLen cells, whole or with its last cell walled off.
Passages ==
  {Started(Desc(walls, Pt(0, 0), <<>>, {}), <<Pt(0, 0)>>) :
     walls \in {RectWalls(MaxLen, 1),
                ObstacleWalls(MaxLen, 1, Pt(MaxLen - 2, 0))}}

\* Scoring functions given as a table: nothing positive, one cell positive,
\* or a cell of little and a cell of much value.
Tables(lv) ==
  {<<>>}
  \cup {(p :> v) : p \in Cells(lv), v \in {1, 100}}
  \cup {(p :> 1) @@ (q :> 100) : p \in Cells(lv), q \in Cells(lv)}

\* A drone that has moved to pos in its zone, with time left on its boosters.
Drone_at(pos, wheels, drill) ==
  [Drone_new(pos) EXCEPT !.wheels = wheels, !.drill = drill, !.zone = 0]

\* The searches: in the rooms with the scoring functions of the solver, in
\* the corridors with tables.
RoomSearches ==
  UNION {
    {[level |-> lv, drone |-> Drone_at(pos, b, b), rate |-> r] :
       pos \in Cells(lv) \ BlockedCells(lv), b \in {0, 2},
       r \in {[kind |-> "max_wrapping"], [kind |-> "zone", looking_in |-> {0}]}} :
    lv \in RoomLevels}

PassageSearches ==
  UNION {
    {[level |-> lv, drone |-> Drone_at(pos, w, 0), rate |-> [kind |-> "table", f |-> f]] :
       pos \in {Pt(0, 0), Pt(5, 0)}, w \in {0, 2}, f \in Tables(lv)} :
    lv \in Passages}

ExploreInit ==
  \E c \in RoomSearches \cup PassageSearches :
    /\ level = c.level
    /\ drones = <<c.drone>>
    /\ pc = "explore_impl"
    /\ drone_idx = 0
    /\ round_len = 0
    /\ call = [op |-> "explore_impl", rate |-> c.rate]

\* The statements before the loop: the empty seen set, the queue holding
\* the root, no best, max_len 5. first_positive and iterations observe the
\* loop: the plan length of the first dequeued node other than the root that
\* the rate function values above zero (0 while there is none), and the
\* number of iterations begun.
Enter ==
  /\ pc = "explore_impl"
  /\ call' = [op |-> "explore_impl", rate |-> call.rate,
              st |-> explore_init(drones[1]),
              first_positive |-> 0, iterations |-> 0]
  /\ pc' = "loop"
  /\ UNCHANGED <<level, drones, drone_idx, round_len>>

\* Whether the node about to be dequeued is the first positive one.
is_first_positive ==
  /\ call.first_positive = 0
  /\ call.st.queue # <<>>
  /\ Head(call.st.queue).plan # <<>>
  /\ rate_apply(call.rate, level, drones[1], Head(call.st.queue).pos) > 0

\* The search state and the observations after the iteration that yields st.
Iterated(st) ==
  /\ call' = [call EXCEPT
                !.st = st,
                !.first_positive = IF is_first_positive
                                   THEN Len(Head(call.st.queue).plan) ELSE @,
                !.iterations = @ + 1]
  /\ pc' = IF st.done THEN "returned" ELSE "loop"

\* One iteration of the loop: it dequeues, scores and expands a node, or it
\* breaks and explore_impl returns.
Iterate ==
  /\ pc = "loop"
  /\ \E st \in {explore_iter(level, drones[1], call.rate, call.st)} : Iterated(st)
  /\ UNCHANGED <<level, drones, drone_idx, round_len>>

ExploreSpec == ExploreInit /\ [][Enter \/ Iterate]_vars

\* explore_impl in a running program: a statement that can run does run. An
\* iteration is enabled exactly when pc = "loop" and always changes the state
\* (it counts), so WF_vars(Iterate) is the disjunction below.
FairExploreSpec ==
  /\ ExploreSpec
  /\ WF_vars(Enter)
  /\ ([]<>(pc # "loop") \/ []<><<Iterate>>_vars)

----------------------------------------------------------------------------
(* doall: the worker threads of a batch run.  The state of the call is kept *)
(* in `call`; pc is the position of the thread that called doall.  A task   *)
(* is a file name handed to solve(); what matters of it here is whether     *)
(* solve() returns on it or panics (an abort of parse_level or solve_impl). *)
(* A panic unwinds its thread (the default of the build), and a panic of    *)
(* the calling thread ends the process.                                     *)

MaxThreads == 2
MaxTasks == 3

RECURSIVE SeqsOver(_, _)
\* Every sequence of length n over S.
SeqsOver(S, n) ==
  IF n = 0 THEN {<<>>}
  ELSE UNION {{Append(q, e) : e \in S} : q \in SeqsOver(S, n - 1)}

\* The batches: main() passes at least one thread and any number of files.
Batches ==
  {[threads |-> t, tasks |-> q] :
     t \in 1..MaxThreads,
     q \in UNION {SeqsOver({"returns", "panics"}, n) : n \in 0..MaxTasks}}

\* `let m_queue = Arc::new(Mutex::new(tasks)); let mut handles = vec![];`
\* The queue holds the tasks by their index; lock is the worker holding the
\* mutex, or 0.
DoallInit ==
  \E b \in Batches :
    /\ level = <<>>
    /\ drones = <<>>
    /\ pc = "spawn"
    /\ drone_idx = 0
    /\ round_len = 0
    /\ call = [op |-> "doall", threads |-> b.threads, tasks |-> b.tasks,
               queue |-> [i \in 1..Len(b.tasks) |-> i],
               lock |-> 0,
               workers |-> <<>>,
               joined |-> 0,
               popped |-> [i \in 1..Len(b.tasks) |-> 0],
               solved |-> [i \in 1..Len(b.tasks) |-> 0]]

\* The process is alive: the calling thread has not panicked.
Alive == pc \in {"spawn", "join"}

Worker(w) == call.workers[w]

\* `for i in 0..threads { ... thread::spawn(..); handles.push(handle); }`
Spawn ==
  /\ pc = "spawn"
  /\ IF Len(call.workers) < call.threads
     THEN /\ call' = [call EXCEPT !.workers = Append(@, [pc |-> "lock", task |-> 0])]
          /\ pc' = pc
     ELSE /\ pc' = "join"
          /\ call' = call
  /\ UNCHANGED <<level, drones, drone_idx, round_len>>

\* A lock that does not wait for the mutex to be free.
Lock_barging(w) ==
  /\ Alive
  /\ Worker(w).pc = "lock"
  /\ call' = [call EXCEPT !.lock = w, !.workers[w].pc = "pop"]
  /\ UNCHANGED <<level, drones, pc, drone_idx, round_len>>

\* `let mut queue = m_queue.lock().unwrap();`
Lock(w) ==
  /\ Alive
  /\ Worker(w).pc = "lock"
  /\ call.lock = 0
  /\ call' = [call EXCEPT !.lock = w, !.workers[w].pc = "pop"]
  /\ UNCHANGED <<level, drones, pc, drone_idx, round_len>>

\* `queue.pop_front()` and the end of the block, which drops the guard;
\* then `if let Some(task) = o_task { f(task) } else { break }` up to the
\* call of f.
Pop(w) ==
  /\ Alive
  /\ Worker(w).pc = "pop"
  /\ call' =
       IF call.queue = <<>>
       THEN [call EXCEPT !.lock = 0, !.workers[w].pc = "exited"]
       ELSE [call EXCEPT !.lock = 0,
                         !.queue = Tail(@),
                         !.popped[Head(call.queue)] = @ + 1,
                         !.workers[w] = [pc |-> "solve", task |-> Head(call.queue)]]
  /\ UNCHANGED <<level, drones, pc, drone_idx, round_len>>

\* f(task) returns: solve() has written the solution; the loop goes round.
Solved(w) ==
  /\ Alive
  /\ Worker(w).pc = "solve"
  /\ call.tasks[Worker(w).task] = "returns"
  /\ call' = [call EXCEPT !.solved[Worker(w).task] = @ + 1,
                          !.workers[w] = [pc |-> "lock", task |-> 0]]
  /\ UNCHANGED <<level, drones, pc, drone_idx, round_len>>

\* f(task) panics: the worker's thread unwinds and ends.
Panic(w) ==
  /\ Alive
  /\ Worker(w).pc = "solve"
  /\ call.tasks[Worker(w).task] = "panics"
  /\ call' = [call EXCEPT !.workers[w].pc = "panicked"]
  /\ UNCHANGED <<level, drones, pc, drone_idx, round_len>>

\* `for handle in handles { handle.join().unwrap(); }`: join returns once the
\* thread has ended; unwrap panics if it ended by a panic.
Join ==
  /\ pc = "join"
  /\ call.joined < call.threads
  /\ Worker(call.joined + 1).pc \in {"exited", "panicked"}
  /\ IF Worker(call.joined + 1).pc = "exited"
     THEN /\ call' = [call EXCEPT !.joined = @ + 1]
          /\ pc' = pc
     ELSE /\ call' = call
          /\ pc' = "join panicked"
  /\ UNCHANGED <<level, drones, drone_idx, round_len>>

\* doall returns.
Return ==
  /\ pc = "join"
  /\ call.joined = call.threads
  /\ pc' = "returned"
  /\ UNCHANGED <<level, drones, drone_idx, round_len, call>>

DoallNext ==
  \/ Spawn
  \/ \E w \in DOMAIN call.workers : Lock(w)
  \/ \E w \in DOMAIN call.workers : Pop(w)
  \/ \E w \in DOMAIN call.workers : Solved(w)
  \/ \E w \in DOMAIN call.workers : Panic(w)
  \/ Join
  \/ Return

DoallSpec == DoallInit /\ [][DoallNext]_vars

\* Threads that can run do run: the calling thread and every worker.
FairDoallSpec ==
  /\ DoallSpec
  /\ WF_vars(Spawn \/ Join \/ Return)
  /\ \A w \in 1..MaxThreads :
       WF_vars(w \in DOMAIN call.workers /\ (Lock(w) \/ Pop(w) \/ Solved(w) \/ Panic(w)))
----------------------------------------------------------------------------
(* What the checks below observe of a level *)

\* The number of grid cells whose state is EMPTY.
CountEmpty(lv) == Cardinality({i \in DOMAIN lv.grid : lv.grid[i] = EMPTY})

\* Cells that drill_cell has turned: zones() gives a zone to EMPTY cells only,
\* so in a level whose EMPTY cells all lie in a zone a WRAPPED cell without a
\* zone was BLOCKED.
Drilled(lv) ==
  {i \in DOMAIN lv.grid : lv.grid[i] = WRAPPED /\ lv.zones[i] = UNDECIDED_ZONE}

\* Cells that wrap_cell has turned.
Wrapped(lv) ==
  {i \in DOMAIN lv.grid : lv.grid[i] = WRAPPED /\ lv.zones[i] # UNDECIDED_ZONE}

Adjacent(p) == {Pt(p.x + 1, p.y), Pt(p.x - 1, p.y), Pt(p.x, p.y + 1), Pt(p.x, p.y - 1)}

RECURSIVE Connected(_, _)
\* The cells joined to a cell of S by steps between walkable neighbours.
Connected(lv, S) ==
  LET T == S \cup {q \in UNION {Adjacent(p) : p \in S} : walkable(lv, q.x, q.y)}
  IN  IF T = S THEN S ELSE Connected(lv, T)

\* Every remaining EMPTY cell can be walked to from the drone's position.
RemainingReachable(lv, drone) ==
  \A p \in Cells(lv) :
    get_cell(lv, p.x, p.y) = EMPTY => p \in Connected(lv, {drone.pos})

----------------------------------------------------------------------------
(* solve_impl: the counters, the cells and the end of a run *)

\* C1: in every state of a solve, from the parsed level on, Level.empty is
\* the number of EMPTY cells of the grid; on every cell it may be called on,
\* wrap_cell lowers empty by exactly one and drill_cell leaves it unchanged,
\* and the count of EMPTY cells follows.
C1_EmptyCount ==
  /\ level.empty = CountEmpty(level)
  /\ \A p \in Cells(level) :
       /\ wrap_cell_ok(level, p) =>
            /\ wrap_cell(level, p).empty = level.empty - 1
            /\ CountEmpty(wrap_cell(level, p)) = level.empty - 1
       /\ drill_cell_ok(level, p) =>
            /\ drill_cell(level, p).empty = level.empty
            /\ CountEmpty(drill_cell(level, p)) = level.empty

\* Cells have been wrapped and a cell has been drilled, and cells remain.
C1_Witness ==
  /\ pc = "turn"
  /\ Drilled(level) # {}
  /\ Wrapped(level) # {}
  /\ level.empty > 0

\* C2: over every turn of every drone a cell that changes state was EMPTY or
\* BLOCKED and becomes WRAPPED: a WRAPPED cell never changes again, and no
\* cell becomes EMPTY or BLOCKED.
C2_CellsOnlyBecomeWrapped ==
  [][\A i \in DOMAIN level.grid :
       level'.grid[i] # level.grid[i] =>
         /\ level.grid[i] \in {EMPTY, BLOCKED}
         /\ level'.grid[i] = WRAPPED]_vars

\* Two drones are at work, one cell has been drilled, and cells of all three
\* states exist.
C2_Witness ==
  /\ Len(drones) >= 2
  /\ Drilled(level) # {}
  /\ \E i, j \in DOMAIN level.grid : level.grid[i] = EMPTY /\ level.grid[j] = BLOCKED

\* C3: every run of solve_impl ends, by returning or by a panic, and it
\* returns only when Level.empty is 0.
C3_Terminates ==
  /\ [](pc = "done" => level.empty = 0)
  /\ <>(pc \notin {"start", "turn"})

\* A run of two drones has returned.
C3_Witness == pc = "done" /\ level.empty = 0 /\ Len(drones) = 2

\* C4: no turn of any drone ends in act's "Unwalkable" abort.
C4_NeverUnwalkable == pc # "Unwalkable"

\* C5: while cells remain and the drone can walk to all of them, a turn ends
\* neither in "Nothing to do" nor in "No zone left to choose".
C5_AlwaysSomethingToDo ==
  pc \in {"Nothing to do", "No zone left to choose"} =>
    ~(level.empty > 0 /\ RemainingReachable(level, drones[drone_idx + 1]))

----------------------------------------------------------------------------
(* step: moves and jumps *)

Delta(action) ==
  CASE action = "LEFT"  -> Pt(-1, 0)
    [] action = "RIGHT" -> Pt(1, 0)
    [] action = "UP"    -> Pt(0, 1)
    [] action = "DOWN"  -> Pt(0, -1)

\* The cell n steps from the call's `from` in the direction of its action.
Target(n) ==
  Pt(call.from.x + n * Delta(call.action).x, call.from.y + n * Delta(call.action).y)

\* A directional call of step has returned.
Moved == pc = "stepped" /\ call.action \in Directional

\* A valid destination in the words of the claim: in the already-drilled
\* set, or drill active and in bounds, or walkable.
ValidDest(p) ==
  \/ p \in call.drilled
  \/ (call.drill /\ valid(level, p.x, p.y))
  \/ walkable(level, p.x, p.y)

JumpIndex(action) ==
  CASE action = "JUMP0" -> 0
    [] action = "JUMP1" -> 1
    [] action = "JUMP2" -> 2

\* C6: a directional step whose first cell is neither drilled already nor
\* walkable returns no destination when drill is inactive, with or without
\* wheels.
C6_NoDestinationIntoWall ==
  (/\ Moved
   /\ Target(1) \notin call.drilled
   /\ ~walkable(level, Target(1).x, Target(1).y)
   /\ ~call.drill)
  => ~call.ret.ok

\* A wheeled step into a BLOCKED cell of the grid has returned nothing.
C6_Witness ==
  /\ Moved /\ call.wheels /\ ~call.drill
  /\ Target(1) \notin call.drilled
  /\ valid(level, Target(1).x, Target(1).y)
  /\ get_cell(level, Target(1).x, Target(1).y) = BLOCKED
  /\ ~call.ret.ok

\* C7: a wheeled directional step that returns a destination advances two
\* cells if the first and the second cell are both valid destinations, and
\* exactly one cell otherwise.
C7_WheelsTwoOrOne ==
  (Moved /\ call.wheels /\ call.ret.ok) =>
    IF ValidDest(Target(1)) /\ ValidDest(Target(2))
    THEN call.ret.pos = Target(2)
    ELSE call.ret.pos = Target(1)

\* A wheeled step has stopped after one cell in front of a BLOCKED cell of
\* the grid.
C7_Witness ==
  /\ Moved /\ call.wheels /\ call.ret.ok
  /\ call.ret.pos = Target(1)
  /\ valid(level, Target(2).x, Target(2).y)
  /\ get_cell(level, Target(2).x, Target(2).y) = BLOCKED

\* C8: JUMPi with at least i + 1 beacons placed returns beakons[i], the
\* cells would_wrap yields there and no drilled cell, wherever the drone is
\* and whatever wheels and drill are; with fewer beacons it returns nothing.
C8_JumpToBeakon ==
  (pc = "stepped" /\ call.action \notin Directional) =>
    IF Len(level.beakons) >= JumpIndex(call.action) + 1
    THEN /\ call.ret.ok
         /\ call.ret.pos = level.beakons[JumpIndex(call.action) + 1]
         /\ call.ret.new_wrapped =
              would_wrap(level, drones[1], level.beakons[JumpIndex(call.action) + 1])
         /\ call.ret.new_drilled = {}
    ELSE ~call.ret.ok

\* With wheels and drill active a drone away from the beacons has jumped to
\* the second of three, where there are cells to wrap.
C8_Witness ==
  /\ pc = "stepped" /\ call.action = "JUMP1"
  /\ Len(level.beakons) = 3
  /\ call.wheels /\ call.drill
  /\ \A i \in DOMAIN level.beakons : level.beakons[i] # call.from
  /\ call.ret.ok
  /\ call.ret.pos = level.beakons[2]
  /\ call.ret.new_wrapped # {}

----------------------------------------------------------------------------
(* explore_impl: the depth cap and the end of the search *)

Returned == pc = "returned"

\* C9 as claimed: when a node of at most 5 actions is valued above zero, the
\* returned plan has at most 5 actions.
C9_PlanWithinCap ==
  (Returned /\ call.first_positive \in 1..INITIAL_MAX_LEN) =>
    /\ call.st.result.ok
    /\ Len(call.st.result.plan) <= INITIAL_MAX_LEN

\* C9: when a node of fewer than 5 actions is valued above zero, the returned
\* plan has fewer than 5 actions; when the first such node has exactly 5
\* actions the cap is 10 by then, and the returned plan has fewer than 10.
C9_PlanWithinCapReached ==
  Returned =>
    /\ call.first_positive \in 1..(INITIAL_MAX_LEN - 1) =>
         /\ call.st.result.ok
         /\ Len(call.st.result.plan) < INITIAL_MAX_LEN
    /\ call.first_positive = INITIAL_MAX_LEN =>
         /\ call.st.result.ok
         /\ Len(call.st.result.plan) < 2 * INITIAL_MAX_LEN

\* A search has returned a plan of 4 actions to a cell of little value and
\* left a cell of much value aside.
C9_Witness ==
  /\ Returned
  /\ call.first_positive = INITIAL_MAX_LEN - 1
  /\ call.st.result.ok
  /\ Len(call.st.result.plan) = INITIAL_MAX_LEN - 1
  /\ call.rate.kind = "table"
  /\ \E q \in DOMAIN call.rate.f :
       call.rate.f[q] > call.rate.f[call.st.result.pos]

\* C10: explore_impl returns, after no more iterations than the level has
\* cells and two, and it returns none exactly when no dequeued node other
\* than the root was valued above zero.
C10_ReturnsNoneIffNothingPositive ==
  /\ [](pc \in {"loop", "returned"} =>
          call.iterations <= Cardinality(Cells(level)) + 2)
  /\ [](Returned => (call.st.result.ok <=> call.first_positive > 0))
  /\ <>Returned

\* A search for a cell it cannot reach has returned none after extending the
\* cap twice.
C10_Witness ==
  /\ Returned
  /\ ~call.st.result.ok
  /\ call.st.max_len = INITIAL_MAX_LEN + 10
  /\ call.rate.kind = "table"
  /\ \E q \in DOMAIN call.rate.f : call.rate.f[q] > 0


----------------------------------------------------------------------------
(* hand_blocker: the blocker sets of the extended hands *)

\* would_wrap has returned for a drone whose last hand is (1, n), n >= 2.
Extended == pc = "wrapped" /\ call.hand.x = 1 /\ call.hand.y >= 2

\* C11 as claimed: the blocker set of the hand (1, n), n >= 2, has exactly n
\* cells, those with y below the midpoint of its y-range at x-offset 0 and
\* those with y at or above the midpoint at x-offset 1.
C11_BlockersSplitAtMidpoint ==
  Extended =>
    LET ys == {p.y : p \in call.ret.blockers}
        lo == CHOOSE y \in ys : \A z \in ys : y <= z
        hi == CHOOSE y \in ys : \A z \in ys : y >= z
    IN  /\ Cardinality(call.ret.blockers) = call.hand.y
        /\ \A p \in call.ret.blockers :
             IF 2 * p.y < lo + hi THEN p.x = 0 ELSE p.x = 1

\* C11: the blocker set of the hand (1, n), n = 2..19, has n + 3 cells for
\* even n and n + 2 cells for odd n: the cells (0, y) for y from 1 to
\* n / 2 + 1 (rounded down) and the cells (1, y) for y from n / 2 (rounded up)
\* to n + 1.
C11_BlockersOverlapAtMidpoint ==
  Extended =>
    LET n == call.hand.y
    IN  /\ call.ret.blockers =
             {Pt(0, y) : y \in 1..(n \div 2 + 1)}
             \cup {Pt(1, y) : y \in ((n + 1) \div 2)..(n + 1)}
        /\ Cardinality(call.ret.blockers) = IF n % 2 = 0 THEN n + 3 ELSE n + 2

\* The longest hand of the table is stopped by an obstacle that is in its
\* blocker set but neither next to the drone nor the target cell.
C11_Witness ==
  /\ Extended
  /\ call.hand.y = LAST_HAND
  /\ Cardinality(call.ret.blockers) = LAST_HAND + 2
  /\ ~call.ret.reaching
  /\ \E p \in BlockedCells(level) :
       /\ Pt(p.x - call.from.x, p.y - call.from.y) \in call.ret.blockers
       /\ p.y > 1
       /\ p.y < LAST_HAND

----------------------------------------------------------------------------
(* Determinism: the iteration order of the hash sets *)

\* `for p in to_wrap { level.wrap_cell(p.x, p.y) }` with the HashSet yielding
\* its points in the given order.
RECURSIVE wrap_in_order(_, _)
wrap_in_order(lv, order) ==
  IF order = <<>> THEN lv
  ELSE wrap_in_order(wrap_cell(lv, Head(order)), Tail(order))

\* `for p in new_drilled { level.drill_cell(p.x, p.y) }`, likewise.
RECURSIVE drill_in_order(_, _)
drill_in_order(lv, order) ==
  IF order = <<>> THEN lv
  ELSE drill_in_order(drill_cell(lv, Head(order)), Tail(order))

\* `wrapped.iter().map(|p| 1.0_f64.max(weight of p)).sum()`, likewise. The
\* terms are whole numbers of at most 8 and there are no more of them than
\* the drone has hands, so every partial sum is exact in f64.
RECURSIVE sum_in_order(_, _)
sum_in_order(lv, order) ==
  IF order = <<>> THEN 0
  ELSE Max(1, lv.weights[grid_idx(lv, Head(order).x, Head(order).y)])
       + sum_in_order(lv, Tail(order))

\* The orders a HashSet holding the points S can yield them in.
Orders(S) == SeqsOfDistinct(S, Cardinality(S))

\* What step returns to act for the drone and the action, in this turn.
StepNow(drone, action) ==
  step(level, drone, drone.pos, action,
       wear_off(drone).wheels > 0, wear_off(drone).drill > 0, {})

\* C12: a run is a function of the parsed level. In every state of a solve,
\* in whatever order the hash sets yield their points, the initial wrap and
\* every action a drone can execute leave the same level, and max_wrapping
\* sums to the same value; all other decisions are taken over vectors, queues
\* and lookups.
C12_IterationOrderIrrelevant ==
  /\ pc = "start" =>
       \A o \in Orders(would_wrap(level, drones[1], drones[1].pos)) :
         wrap_in_order(level, o) = wrap_bot(drones[1], level)
  /\ pc = "turn" =>
       \A i \in DOMAIN drones : \A a \in DOMAIN Actions :
         LET r == StepNow(drones[i], Actions[a])
         IN  r.ok =>
               /\ \A ow \in Orders(r.new_wrapped) : \A od \in Orders(r.new_drilled) :
                    drill_in_order(wrap_in_order(level, ow), od)
                      = drill_all(wrap_all(level, r.new_wrapped), r.new_drilled)
               /\ \A ow \in Orders(would_wrap(level, drones[i], r.pos)) :
                    get_zone(level, r.pos.x, r.pos.y) = drones[i].zone
                    /\ r.pos \notin DOMAIN level.bonuses
                    => sum_in_order(level, ow) = max_wrapping(level, drones[i], r.pos)

\* Two drones are at work and one of them can move so that it wraps three
\* cells, which its hash set can yield in six orders.
C12_Witness ==
  /\ pc = "turn"
  /\ Len(drones) = 2
  /\ \E i \in DOMAIN drones : \E a \in DOMAIN Actions :
       LET r == StepNow(drones[i], Actions[a])
       IN  r.ok /\ Cardinality(r.new_wrapped) >= 3


----------------------------------------------------------------------------
(* doall: what becomes of the tasks *)

\* The batch has ended: doall has returned, or the process has ended by the
\* panic of the calling thread.
Ended_batch == pc \in {"returned", "join panicked"}

\* solve() returns on every task of the batch.
NoPanics == \A i \in DOMAIN call.tasks : call.tasks[i] = "returns"

\* C13: when a batch has ended, every task on which solve() does not panic
\* has been taken by a worker and solved, whatever other tasks panicked and
\* however many workers there are.
C13_OtherTasksUnaffected ==
  Ended_batch =>
    \A i \in DOMAIN call.tasks :
      call.tasks[i] = "returns" => call.popped[i] = 1 /\ call.solved[i] = 1

\* C14: while no task panics, the mutex is held exactly by the worker that is
\* at pop_front and by no worker that is solving; every task is either still
\* queued or popped once, and solved at most once and only after it was
\* popped; a worker has exited only with the queue empty; doall has returned
\* only with every task solved once and every worker exited; and doall does
\* return.
C14_EachTaskOnce ==
  /\ [](NoPanics =>
          /\ \A w \in DOMAIN call.workers :
               /\ (Worker(w).pc = "pop") <=> (call.lock = w)
               /\ Worker(w).pc = "exited" => call.queue = <<>>
          /\ \A i \in DOMAIN call.tasks :
               /\ call.popped[i] = IF \E k \in DOMAIN call.queue : call.queue[k] = i
                                   THEN 0 ELSE 1
               /\ call.solved[i] =
                    IF call.popped[i] = 1
                       /\ \A w \in DOMAIN call.workers : Worker(w).task # i
                    THEN 1 ELSE 0
          /\ pc = "returned" =>
               /\ \A i \in DOMAIN call.tasks : call.solved[i] = 1
               /\ Len(call.workers) = call.threads
               /\ \A w \in DOMAIN call.workers : Worker(w).pc = "exited")
  /\ (NoPanics => <>(pc = "returned"))

\* doall has returned from a batch of three tasks and two workers.
C14_Witness ==
  /\ pc = "returned"
  /\ call.threads = 2
  /\ Len(call.tasks) = 3
  /\ NoPanics
  /\ \A i \in DOMAIN call.tasks : call.solved[i] = 1

----------------------------------------------------------------------------
(* solve_impl on the smallest level *)

\* The level has one cell that is not BLOCKED, no bonus and no spawn point.
SingleCell(lv) ==
  /\ Cardinality({i \in DOMAIN lv.grid : lv.grid[i] # BLOCKED}) = 1
  /\ DOMAIN lv.bonuses = {}
  /\ lv.spawns = {}

\* C15: on a level whose only EMPTY cell is the start cell, without bonuses,
\* the initial wrap takes Level.empty to 0 and solve_impl is done without a
\* scheduling turn: one drone, its path empty.
C15_SingleCellSolvedByInitialWrap ==
  SingleCell(level) =>
    /\ pc \in {"start", "done"}
    /\ Len(drones) = 1
    /\ drones[1].path = <<>>
    /\ pc = "start" =>
         /\ level.empty = 1
         /\ get_cell(level, drones[1].pos.x, drones[1].pos.y) = EMPTY
         /\ Continue(wrap_bot(drones[1], level), drones, 0, Len(drones)).pc = "done"
    /\ pc = "done" => level.empty = 0

\* solve_impl is done with the single-cell level.
C15_Witness ==
  /\ SingleCell(level)
  /\ pc = "done"
  /\ level.empty = 0
  /\ drones[1].path = <<>>

----------------------------------------------------------------------------
(* The zones and their counters *)

\* The number of EMPTY cells labelled z.
CountEmptyIn(lv, z) ==
  Cardinality({i \in DOMAIN lv.grid : lv.grid[i] = EMPTY /\ lv.zones[i] = z})

\* C16: in every state of a solve zones_empty[z] is the number of EMPTY cells
\* labelled z, for each zone z; on every cell wrap_cell may be called on it
\* lowers Level.empty by one and, if the cell is labelled z, zones_empty[z] by
\* one with it, and no counter if the cell is undecided; and no step changes
\* a zone label.
C16_ZoneCounters ==
  /\ [](/\ \A z \in DOMAIN level.zones_empty :
             level.zones_empty[z] = CountEmptyIn(level, z)
        /\ \A p \in Cells(level) :
             wrap_cell_ok(level, p) =>
               LET z == get_zone(level, p.x, p.y)
                   wrapped == wrap_cell(level, p)
               IN  /\ wrapped.empty = level.empty - 1
                   /\ wrapped.zones = level.zones
                   /\ wrapped.zones_empty =
                        IF z = UNDECIDED_ZONE THEN level.zones_empty
                        ELSE [level.zones_empty EXCEPT ![z] = @ - 1])
  /\ [][level'.zones = level.zones]_vars

\* Two drones have wrapped cells of two zones, and each zone has cells left.
C16_Witness ==
  /\ pc = "turn"
  /\ Len(drones) = 2
  /\ DOMAIN level.zones_empty = {0, 1}
  /\ \A z \in {0, 1} :
       /\ level.zones_empty[z] > 0
       /\ \E i \in DOMAIN level.grid : level.grid[i] = WRAPPED /\ level.zones[i] = z

----------------------------------------------------------------------------
(* The boosters: on the grid, in the pool, used *)

Kinds == {HAND, WHEELS, DRILL, TELEPORT, CLONE}

\* The command each activation appends to the path.
Letter(b) ==
  CASE b = WHEELS -> "F"
    [] b = DRILL -> "L"
    [] b = HAND -> "B"
    [] b = TELEPORT -> "R"
    [] b = CLONE -> "C"

\* Units of kind b in Level.bonuses.
OnGrid(lv, b) == Cardinality({p \in DOMAIN lv.bonuses : lv.bonuses[p] = b})

\* Units of kind b in Level.collected.
Pool(lv, b) == get_or(lv.collected, b, 0)

RECURSIVE UsedIn(_, _)
\* Activations of kind b written in the paths of the drones ds.
UsedIn(ds, b) ==
  IF ds = <<>> THEN 0
  ELSE Cardinality({i \in DOMAIN Head(ds).path : Head(ds).path[i][1] = Letter(b)})
       + UsedIn(Tail(ds), b)

\* The unit of kind b the drone whose turn it is stands on: 1 or 0.
Underfoot(b) ==
  IF /\ drones[drone_idx + 1].pos \in DOMAIN level.bonuses
     /\ level.bonuses[drones[drone_idx + 1].pos] = b
  THEN 1 ELSE 0

\* C17: for every kind of booster, the units on the grid, in the shared pool
\* and used by activations add up to the same number from the parsed level on
\* (where none is in the pool and none is used); a turn moves the unit under
\* its drone, and no other, from the grid to the pool; a turn writes at most
\* one activation, takes exactly one unit of that kind from the pool for it,
\* and only from a pool that holds one once the turn's unit is collected; no
\* entry of the pool is ever zero or less.
C17_BoostersConserved ==
  /\ \A b \in Kinds : Pool(level, b) = 0 /\ UsedIn(drones, b) = 0
  /\ [](\A b \in DOMAIN level.collected : level.collected[b] > 0)
  /\ [][/\ \A b \in Kinds :
             OnGrid(level', b) + Pool(level', b) + UsedIn(drones', b)
               = OnGrid(level, b) + Pool(level, b) + UsedIn(drones, b)
        /\ pc = "start" => level'.bonuses = level.bonuses
                           /\ level'.collected = level.collected
        /\ pc = "turn" /\ pc' \in {"turn", "done"} =>
             /\ \A b \in Kinds :
                  /\ OnGrid(level', b) = OnGrid(level, b) - Underfoot(b)
                  /\ UsedIn(drones', b) - UsedIn(drones, b) \in {0, 1}
                  /\ UsedIn(drones', b) = UsedIn(drones, b) + 1
                       => /\ Pool(level, b) + Underfoot(b) > 0
                          /\ \A o \in Kinds \ {b} : UsedIn(drones', o) = UsedIn(drones, o)
             /\ DOMAIN level'.bonuses = DOMAIN level.bonuses \ {drones[drone_idx + 1].pos}
       ]_vars

\* Two drones, the Clone used, one Wheels used by one drone and none left in
\* the pool for the other.
C17_Witness ==
  /\ Len(drones) = 2
  /\ UsedIn(drones, CLONE) = 1
  /\ UsedIn(drones, WHEELS) = 1
  /\ Pool(level, WHEELS) = 0
  /\ OnGrid(level, WHEELS) = 0
  /\ pc = "turn"

----------------------------------------------------------------------------
(* The order of a turn *)

\* The drone whose turn it is, and what the turn's first three calls make of
\* it and of the level.
Mover == drones[drone_idx + 1]

Collected == collect(Mover, level)

Selected == choose_zone(wear_off(Mover), [i \in DOMAIN drones |-> drones[i].zone], Collected)

\* The command the turn has appended to the mover's path.
Emitted == drones'[drone_idx + 1].path[Len(drones'[drone_idx + 1].path)]

\* The turn ended on an activation: the mover stands where it stood with an
\* empty plan, and no cell changed.
Stayed ==
  /\ drones'[drone_idx + 1].pos = Mover.pos
  /\ drones'[drone_idx + 1].plan = <<>>
  /\ level'.grid = level.grid

\* The turn executed the first action of plan and kept the rest.
Executed(plan) ==
  /\ Emitted = command(Head(plan), Collected)
  /\ drones'[drone_idx + 1].plan = Tail(plan)

\* The turn of a drone d without a plan to which no cloning and no activation
\* applies: the plan of the first search that yields one is executed, and a
\* drone left without a plan coasts.
Searched(d) ==
  LET ec == explore_clone(Collected, d, drone_idx)
      es == explore_spawn(Collected, d, drone_idx)
      ew == explore(Collected, d, [kind |-> "max_wrapping"])
      plan == IF ec.ok THEN ec.plan ELSE IF es.ok THEN es.plan
              ELSE IF ew.ok THEN ew.plan ELSE <<>>
  IN  IF plan # <<>> THEN Executed(plan)
      ELSE Emitted = <<"Z">> /\ Stayed

\* The turn of a drone d whose plan is empty after the zone selection.
Planless(d) ==
  IF Pool(Collected, CLONE) > 0 /\ d.pos \in level.spawns
  THEN Emitted = <<"C">> /\ Stayed /\ Len(drones') = Len(drones) + 1
  ELSE /\ Len(drones') = Len(drones)
       /\ IF Pool(Collected, WHEELS) > 0 /\ d.wheels = 0 /\ has_space(d, level)
          THEN Emitted = <<"F">> /\ Stayed
          ELSE IF Pool(Collected, DRILL) > 0 /\ d.drill = 0
          THEN Emitted = <<"L">> /\ Stayed
          ELSE IF Pool(Collected, HAND) > 0
          THEN Emitted[1] = "B" /\ Stayed
          ELSE IF /\ Pool(Collected, TELEPORT) > 0
                  /\ \A i \in DOMAIN level.beakons :
                       Abs(level.beakons[i].x - d.pos.x) + Abs(level.beakons[i].y - d.pos.y)
                         >= BEAKON_DIST
          THEN Emitted = <<"R">> /\ Stayed
          ELSE Searched(d)

\* C18: a turn that ends appends one command to the path of its drone and
\* leaves the other drones alone. The command is the one that follows from
\* collecting first, decaying second and selecting the zone third: with a plan
\* after the zone selection, the plan's first action; without one, C for a
\* drone on a spawn point with a Clone in the pool, else F, else L, else B,
\* else R for the first activation that applies (to the pool after collecting
\* and the counters after decaying), each leaving the drone in place with an
\* empty plan; and only when none applies, the first action of the plan of the
\* first of the clone search, the spawn search and the wrapping search that
\* yields one.
C18_TurnOrder ==
  [][pc = "turn" /\ pc' \in {"turn", "done"} =>
       /\ Len(drones'[drone_idx + 1].path) = Len(Mover.path) + 1
       /\ \A i \in DOMAIN drones \ {drone_idx + 1} : drones'[i] = drones[i]
       /\ level'.bonuses = Collected.bonuses
       /\ IF Selected.drone.plan # <<>>
          THEN Executed(Selected.drone.plan) /\ Len(drones') = Len(drones)
          ELSE Planless(Selected.drone)
    ]_vars

\* A drone that stood on a Hand booster with a plan has moved first and
\* attached the hand on its next turn.
C18_Witness ==
  /\ pc = "turn"
  /\ Len(drones[1].path) = 2
  /\ drones[1].path[1] = <<"W">>
  /\ drones[1].path[2][1] = "B"

----------------------------------------------------------------------------
(* Wheels *)

\* Four cells in a row next to p, inside the level and none of them BLOCKED.
FreeRun(lv, p) ==
  \E dir \in {Pt(0, 1), Pt(0, -1), Pt(1, 0), Pt(-1, 0)} :
    \A i \in 1..4 :
      LET q == Pt(p.x + i * dir.x, p.y + i * dir.y)
      IN  /\ q.x \in 0..(lv.width - 1)
          /\ q.y \in 0..(lv.height - 1)
          /\ lv.grid[q.x + q.y * lv.width] # BLOCKED

\* Drone k has written F in this step.
EmitsF(k) ==
  /\ Len(drones'[k].path) = Len(drones[k].path) + 1
  /\ drones'[k].path[Len(drones'[k].path)] = <<"F">>

\* C19: a wheels counter rises only where F is written, and F is written only
\* by the drone whose turn it is, setting its counter to WHEELS_TIME, in a
\* turn where its plan is empty after the zone selection, the pool holds a
\* Wheels unit once the turn's booster is collected, its counter is 0 after
\* the decay and four cells in a row next to it are inside the level and not
\* BLOCKED.
C19_WheelsOnlyWhenIdleWithSpace ==
  [][\A k \in DOMAIN drones :
       /\ drones'[k].wheels > drones[k].wheels => EmitsF(k)
       /\ EmitsF(k) =>
            /\ pc = "turn" /\ k = drone_idx + 1
            /\ drones'[k].wheels = WHEELS_TIME
            /\ Selected.drone.plan = <<>>
            /\ Pool(level, WHEELS) + Underfoot(WHEELS) > 0
            /\ Mover.wheels \in {0, 1}
            /\ FreeRun(level, Mover.pos)
    ]_vars

\* A drone has just activated wheels.
C19_Witness ==
  \E k \in DOMAIN drones :
    /\ drones[k].wheels = WHEELS_TIME
    /\ drones[k].path # <<>>
    /\ drones[k].path[Len(drones[k].path)] = <<"F">>

----------------------------------------------------------------------------
(* Beacons *)

Manhattan(p, q) == Abs(p.x - q.x) + Abs(p.y - q.y)

\* C20: any two beacons of Level.beakons are BEAKON_DIST or more apart in
\* Manhattan distance; the list changes only by one beacon appended at the
\* position of the drone whose turn it is, BEAKON_DIST or more from every
\* beacon placed before, by a turn that writes R, takes one Teleport unit from
\* the pool and does not move the drone; and R is written by no other turn.
C20_BeaconsFarApart ==
  /\ [](\A i, j \in DOMAIN level.beakons :
          i # j => Manhattan(level.beakons[i], level.beakons[j]) >= BEAKON_DIST)
  /\ [][/\ level'.beakons # level.beakons =>
             /\ pc = "turn"
             /\ level'.beakons = Append(level.beakons, Mover.pos)
             /\ \A i \in DOMAIN level.beakons :
                  Manhattan(level.beakons[i], Mover.pos) >= BEAKON_DIST
             /\ Emitted = <<"R">>
             /\ drones'[drone_idx + 1].pos = Mover.pos
             /\ Pool(level', TELEPORT) = Pool(level, TELEPORT) + Underfoot(TELEPORT) - 1
        /\ UsedIn(drones', TELEPORT) # UsedIn(drones, TELEPORT) =>
             Len(level'.beakons) = Len(level.beakons) + 1
       ]_vars

\* Two beacons are placed, and the drone whose turn it is has no plan and a
\* Teleport unit in the pool, less than BEAKON_DIST from a beacon.
C20_Witness ==
  /\ pc = "turn"
  /\ Len(level.beakons) = 2
  /\ Pool(level, TELEPORT) + Underfoot(TELEPORT) > 0
  /\ Selected.drone.plan = <<>>
  /\ \E i \in DOMAIN level.beakons : Manhattan(level.beakons[i], Mover.pos) < BEAKON_DIST

----------------------------------------------------------------------------
(* Clones *)

\* C21: the list of drones changes only by a turn that appends one drone to
\* it. The turn's drone then has an empty plan after the zone selection,
\* stands on a spawn point and finds a Clone unit in the pool once the turn's
\* booster is collected; the new drone stands where the cloning drone stands,
\* with the four default hands, both counters 0, no zone, an empty plan and
\* an empty path. A drone appended during a round lies beyond the round's
\* range of indices and keeps its empty path until the round is over. The
\* number of drones is 1 + the Clone units used and at most 1 + the Clone
\* units of the level, which is the number of zones.
C21_ClonesOnlyAtSpawns ==
  /\ [](/\ Len(drones) = 1 + UsedIn(drones, CLONE)
        /\ 1 + OnGrid(level, CLONE) + Pool(level, CLONE) + UsedIn(drones, CLONE)
             = Cardinality(DOMAIN level.zones_empty)
        /\ pc = "turn" =>
             /\ drone_idx < round_len /\ round_len <= Len(drones)
             /\ \A k \in (round_len + 1)..Len(drones) : drones[k].path = <<>>)
  /\ [][/\ Len(drones') \in {Len(drones), Len(drones) + 1}
        /\ \A k \in DOMAIN drones :
             k # drone_idx + 1 => drones'[k] = drones[k]
        /\ Len(drones') = Len(drones) + 1 =>
             /\ pc = "turn"
             /\ Selected.drone.plan = <<>>
             /\ Mover.pos \in level.spawns
             /\ Pool(level, CLONE) + Underfoot(CLONE) > 0
             /\ drones'[Len(drones')] =
                  [pos |-> Mover.pos,
                   hands |-> <<Pt(0, 0), Pt(1, -1), Pt(1, 0), Pt(1, 1)>>,
                   wheels |-> 0, drill |-> 0, path |-> <<>>, plan |-> <<>>,
                   zone |-> UNDECIDED_ZONE]
             /\ pc' = "turn" => drone_idx' + 1 # Len(drones')
       ]_vars

\* The clone has taken its first turn.
C21_Witness ==
  /\ Len(drones) = 2
  /\ Len(drones[2].path) = 1
  /\ pc = "turn"

----------------------------------------------------------------------------
(* The zones of a parsed level *)

\* The cells of lv next to p (4-connected).
Neighbours4(lv, p) ==
  {q \in {Pt(p.x, p.y + 1), Pt(p.x, p.y - 1), Pt(p.x + 1, p.y), Pt(p.x - 1, p.y)} :
     valid(lv, q.x, q.y)}

EmptyIn(lv) == {p \in Cells(lv) : get_cell(lv, p.x, p.y) = EMPTY}

RECURSIVE FillDepth(_, _, _, _, _)
\* The number of steps through EMPTY cells from the nearest cell of the set
\* the fill started from (the first frontier) to c; -1 if there is no such
\* way.
FillDepth(lv, frontier, seen, c, d) ==
  IF c \in frontier THEN d
  ELSE IF frontier = {} THEN -1
  ELSE LET next == {q \in EmptyIn(lv) \ seen : \E p \in frontier : q \in Neighbours4(lv, p)}
       IN  FillDepth(lv, next, seen \cup next, c, d + 1)

Depth(lv, seeds, c) ==
  FillDepth(lv, {seeds[i] : i \in DOMAIN seeds}, {seeds[i] : i \in DOMAIN seeds}, c, 0)

\* The seeds a level's zones can have grown from: one distinct EMPTY cell per
\* zone, seed i in zone i - 1.
SeedsOf(lv) ==
  {q \in SeqsOfDistinct(EmptyIn(lv), Cardinality(DOMAIN lv.zones_empty)) :
     \A i \in DOMAIN q : get_zone(lv, q[i].x, q[i].y) = i - 1}

\* What the fill from the seeds q leaves, whatever it reaches: BLOCKED cells
\* keep the sentinel, a cell the fill reaches takes the zone that reaches it
\* first (the lowest zone among its neighbours one step nearer to the seeds:
\* the queue is FIFO and the seeds enter it in the order of their zones), and
\* zones_empty counts the cells of each zone.
FilledFrom(lv, q) ==
  /\ \A p \in Cells(lv) \ EmptyIn(lv) : get_zone(lv, p.x, p.y) = UNDECIDED_ZONE
  /\ \A p \in EmptyIn(lv) :
       LET d == Depth(lv, q, p)
           nearer == {n \in Neighbours4(lv, p) \cap EmptyIn(lv) : Depth(lv, q, n) = d - 1}
       IN  d > 0 =>
             /\ nearer # {}
             /\ \E n \in nearer :
                  /\ get_zone(lv, p.x, p.y) = get_zone(lv, n.x, n.y)
                  /\ \A m \in nearer : get_zone(lv, n.x, n.y) <= get_zone(lv, m.x, m.y)
  /\ \A z \in DOMAIN lv.zones_empty :
       lv.zones_empty[z] = Cardinality({p \in Cells(lv) : get_zone(lv, p.x, p.y) = z})

\* C22 as stated: the zones of a parsed level have grown from distinct EMPTY
\* seeds, one in each zone, as the fill leaves them, and every EMPTY cell has
\* a zone in 0..N-1.
C22_EveryEmptyCellLabelled ==
  pc = "start" =>
    \E q \in SeedsOf(level) :
      /\ FilledFrom(level, q)
      /\ \A p \in EmptyIn(level) : get_zone(level, p.x, p.y) \in DOMAIN level.zones_empty

\* C22, amended: the zones of a parsed level have grown from distinct EMPTY
\* seeds, one in each zone, as the fill leaves them; every EMPTY cell with a
\* way through EMPTY cells to a seed has a zone in 0..N-1, and every EMPTY
\* cell without one keeps the sentinel, as every BLOCKED cell does.
C22_ReachedCellsLabelled ==
  pc = "start" =>
    \E q \in SeedsOf(level) :
      /\ FilledFrom(level, q)
      /\ \A p \in EmptyIn(level) :
           IF Depth(level, q, p) = -1
           THEN get_zone(level, p.x, p.y) = UNDECIDED_ZONE
           ELSE get_zone(level, p.x, p.y) \in DOMAIN level.zones_empty

\* A parsed level with two zones, a BLOCKED cell and a cell as near to one
\* seed as to the other.
C22_Witness ==
  /\ pc = "start"
  /\ Cardinality(DOMAIN level.zones_empty) = 2
  /\ \E p \in Cells(level) : get_cell(level, p.x, p.y) = BLOCKED
  /\ \E q \in SeedsOf(level) : \E p \in EmptyIn(level) :
       /\ FillDepth(level, {q[1]}, {q[1]}, p, 0) = FillDepth(level, {q[2]}, {q[2]}, p, 0)
       /\ FillDepth(level, {q[1]}, {q[1]}, p, 0) > 0

----------------------------------------------------------------------------
(* The zone of a drone *)

RECURSIVE PlannedWalk(_, _, _, _)
\* The positions the search passes through along plan, one for each action,
\* starting from a node of its queue: each action is a step from the node's
\* position with the node's counters and drilled cells, and the next node
\* counts both counters down. A step that fails ends the walk with None.
PlannedWalk(lv, drone, node, plan) ==
  IF plan = <<>> THEN <<>>
  ELSE LET r == step(lv, drone, node.pos, Head(plan),
                     node.wheels > 0, node.drill > 0, node.drilled)
       IN  IF ~r.ok THEN <<None>>
           ELSE <<r.pos>> \o
                PlannedWalk(lv, drone,
                            [pos |-> r.pos,
                             wheels |-> IF node.wheels > 1 THEN node.wheels - 1 ELSE 0,
                             drill |-> IF node.drill > 1 THEN node.drill - 1 ELSE 0,
                             drilled |-> node.drilled \cup r.new_drilled],
                            Tail(plan))

\* The root node of a search for drone.
Root(drone) ==
  [pos |-> drone.pos, wheels |-> drone.wheels, drill |-> drone.drill, drilled |-> {}]

\* The zones with EMPTY cells left that no drone but the one at index k holds.
Unassigned(lv, ds, k) ==
  {z \in DOMAIN lv.zones_empty :
     lv.zones_empty[z] > 0 /\ \A i \in DOMAIN ds \ {k} : ds[i].zone # z}

\* C23: in every turn, choose_zone leaves a drone whose zone is decided and
\* has EMPTY cells left as it is; for a drone whose zone is undecided or has
\* no EMPTY cell left it adopts, unless it aborts, a zone with EMPTY cells
\* left, held by no other drone if some zone with EMPTY cells left is held by
\* no other drone, and a plan whose last position, walked from the drone as
\* the search walks, is an EMPTY cell of the adopted zone.
C23_ZoneChosenWhenNeeded ==
  pc = "turn" =>
    LET d == wear_off(Mover)
        lv == Collected
        s == Selected
        end == PlannedWalk(lv, d, Root(d), s.drone.plan)
    IN  IF d.zone # UNDECIDED_ZONE /\ lv.zones_empty[d.zone] > 0
        THEN ~s.panic /\ ~s.chose /\ s.drone = d
        ELSE ~s.panic =>
               /\ s.chose
               /\ s.drone = [d EXCEPT !.zone = s.drone.zone, !.plan = s.drone.plan]
               /\ s.drone.zone \in DOMAIN lv.zones_empty
               /\ lv.zones_empty[s.drone.zone] > 0
               /\ Unassigned(lv, drones, drone_idx + 1) # {}
                    => s.drone.zone \in Unassigned(lv, drones, drone_idx + 1)
               /\ s.drone.plan # <<>>
               /\ end[Len(end)] \in EmptyIn(lv)
               /\ get_zone(lv, end[Len(end)].x, end[Len(end)].y) = s.drone.zone

\* A drone whose zone has no EMPTY cell left selects again while the other
\* drone holds a zone that has some.
C23_Witness ==
  /\ pc = "turn"
  /\ Len(drones) = 2
  /\ Mover.zone # UNDECIDED_ZONE
  /\ level.zones_empty[Mover.zone] = 0
  /\ Selected.chose
  /\ \E i \in DOMAIN drones : i # drone_idx + 1 /\ drones[i].zone = Selected.drone.zone

----------------------------------------------------------------------------
(* The positions a search enqueues *)

\* The nodes an iteration of the loop has pushed to the queue.
Pushed ==
  IF call.st.queue = <<>> \/ call'.st.done THEN <<>>
  ELSE SubSeq(call'.st.queue, Len(call.st.queue), Len(call'.st.queue))

\* The positions of the nodes of a queue.
Enqueued(queue) == {queue[i].pos : i \in DOMAIN queue}

\* Each pushed node has a position that no node was pushed with before, the
\* other nodes of the same iteration included.
PushedOnce ==
  /\ \A i \in DOMAIN Pushed : Pushed[i].pos \notin call.st.seen
  /\ \A i, j \in DOMAIN Pushed : i # j => Pushed[i].pos # Pushed[j].pos
  /\ call'.st.seen = call.st.seen \cup Enqueued(Pushed)

\* C24: in a call of explore_impl a node is pushed to the queue only with a
\* position that no node has been enqueued with before, the root node with
\* the position of the drone included, so that no two nodes of the queue
\* share a position.
C24_EachPositionEnqueuedOnce ==
  /\ [](pc = "loop" =>
          \A i, j \in DOMAIN call.st.queue :
            i # j => call.st.queue[i].pos # call.st.queue[j].pos)
  /\ [][pc = "loop" =>
          /\ PushedOnce
          /\ \A i \in DOMAIN Pushed : Pushed[i].pos # drones[1].pos
       ]_vars

\* What holds of the code: the same but for the position of the drone, which
\* the root node holds without an entry in `seen` and one pushed node can
\* take again.
EachPositionPushedOnce ==
  /\ [](pc = "loop" =>
          /\ \A i, j \in DOMAIN call.st.queue :
               i # j => call.st.queue[i].pos # call.st.queue[j].pos
          /\ \A i \in DOMAIN call.st.queue :
               call.st.queue[i].plan # <<>> => call.st.queue[i].pos \in call.st.seen)
  /\ [][pc = "loop" => PushedOnce]_vars

\* The search has returned a plan that ends where the drone stands.
ReturnedToStart ==
  /\ pc = "returned"
  /\ call.st.result.ok
  /\ call.st.result.pos = drones[1].pos

----------------------------------------------------------------------------
(* Hands beyond the table *)

\* C25: would_wrap returns for a drone with any number of hand extensions and
\* never fails for a hand without a blocker set.
C25_BlockersForEveryHand == pc # "not implemented"

----------------------------------------------------------------------------
(* One command per turn *)

\* The commands of a path: a letter, with coordinates for B and T.
Commands ==
  {<<c>> : c \in {"W", "A", "S", "D", "F", "L", "R", "C", "Z"}}
  \cup {<<c, x, y>> : c \in {"B", "T"}, x \in -1..BEAKON_DIST + 10, y \in -1..LAST_HAND + 1}

\* The clonings written in the paths of the drones before drone k: drone m
\* has written C as its command number p.
Clonings(k) ==
  {e \in UNION {{<<m, p>> : p \in DOMAIN drones[m].path} : m \in 1..(k - 1)} :
     drones[e[1]].path[e[2]] = <<"C">>}

RECURSIVE Born(_)
\* The round in which drone k was pushed to the list (0 for the first drone):
\* drone k is the clone of the cloning number k - 1, in the order of rounds
\* and of the drones within a round, and a drone writes its command number p
\* in round number p after the round it was pushed in.
Born(k) ==
  IF k = 1 THEN 0
  ELSE LET at(e) == Born(e[1]) + e[2]
           before(e, f) == at(e) < at(f) \/ (at(e) = at(f) /\ e[1] < f[1])
           made == CHOOSE e \in Clonings(k) :
                     Cardinality({f \in Clonings(k) : before(f, e)}) = k - 2
       IN  at(made)

\* The rounds drone k has had its turn in, the running round not counted.
TurnsBefore(k) == Len(drones[k].path) - (IF k <= drone_idx THEN 1 ELSE 0)

\* C26: a turn that ends appends one command to the path of its drone and
\* leaves the paths of the other drones as they are; every command is one of
\* W, A, S, D, T(x,y), F, L, B(x,y), R, C, Z; the turns of a round go through
\* the drones that existed when the round began, in their order, once each,
\* so that between turns every drone has one command for each round since the
\* round it was pushed in.
C26_OneCommandPerTurn ==
  /\ [](\A k \in DOMAIN drones : \A i \in DOMAIN drones[k].path :
          drones[k].path[i] \in Commands)
  /\ [](pc = "turn" =>
          \A k \in DOMAIN drones :
            IF k <= round_len
            THEN TurnsBefore(k) + Born(k) = TurnsBefore(1)
            ELSE drones[k].path = <<>> /\ Born(k) = TurnsBefore(1) + 1)
  /\ [][/\ pc = "turn" /\ pc' \in {"turn", "done"} =>
             /\ drones'[drone_idx + 1].path \in
                  {Append(Mover.path, c) : c \in Commands}
             /\ \A k \in DOMAIN drones' :
                  k # drone_idx + 1 =>
                    drones'[k].path = IF k \in DOMAIN drones THEN drones[k].path ELSE <<>>
        /\ pc = "turn" /\ pc' = "turn" =>
             \/ drone_idx' = drone_idx + 1 /\ round_len' = round_len
             \/ /\ drone_idx + 1 = round_len
                /\ drone_idx' = 0
                /\ round_len' = Len(drones')
        /\ pc # "turn" => \A k \in DOMAIN drones : drones'[k].path = drones[k].path
       ]_vars

\* Two drones between turns in the middle of a round: the first has had its
\* turn, the clone has not, and the clone has written two commands.
C26_Witness ==
  /\ pc = "turn"
  /\ Len(drones) = 2
  /\ round_len = 2
  /\ drone_idx = 1
  /\ Len(drones[2].path) = 2
  /\ Born(2) > 1

----------------------------------------------------------------------------
(* Where the drones stand *)

\* The move written by a turn's command, as a direction.
Heading(c) ==
  CASE c = <<"W">> -> Pt(0, 1)
    [] c = <<"S">> -> Pt(0, -1)
    [] c = <<"A">> -> Pt(-1, 0)
    [] c = <<"D">> -> Pt(1, 0)
    [] OTHER -> Pt(0, 0)

\* C27: between turns every drone stands on a cell of the grid that is
\* WRAPPED; a turn moves its drone by its command's direction, one cell or
\* two, to a beacon for T, and not at all for any other command; and the cell
\* passed over by a move of two cells is WRAPPED after it.
C27_DronesStandOnWrapped ==
  /\ [](pc \in {"turn", "done"} =>
          \A k \in DOMAIN drones :
            /\ valid(level, drones[k].pos.x, drones[k].pos.y)
            /\ get_cell(level, drones[k].pos.x, drones[k].pos.y) = WRAPPED)
  /\ [][pc = "turn" /\ pc' \in {"turn", "done"} =>
          LET from == Mover.pos
              to == drones'[drone_idx + 1].pos
              c == Emitted
              h == Heading(c)
          IN  /\ c[1] = "T" => to = Pt(c[2], c[3]) /\ \E i \in DOMAIN level.beakons : level.beakons[i] = to
              /\ c[1] \in {"F", "L", "B", "R", "C", "Z"} => to = from
              /\ c[1] = "C" => drones'[Len(drones')].pos = from
              /\ c[1] \in {"W", "A", "S", "D"} =>
                   \/ to = Pt(from.x + h.x, from.y + h.y)
                   \/ /\ to = Pt(from.x + 2 * h.x, from.y + 2 * h.y)
                      /\ wear_off(Mover).wheels > 0
                      /\ get_cell(level', from.x + h.x, from.y + h.y) = WRAPPED
       ]_vars

\* A drone with wheels and drill active has just moved.
C27_Witness ==
  /\ pc = "turn"
  /\ \E k \in DOMAIN drones :
       /\ drones[k].wheels > 0
       /\ drones[k].drill > 0
       /\ drones[k].path # <<>>
       /\ drones[k].path[Len(drones[k].path)][1] \in {"W", "A", "S", "D"}

----------------------------------------------------------------------------
(* A plan in the search and in its execution *)

\* What the search of a turn without a plan returns: explore_clone, else
\* explore_spawn, else explore with max_wrapping, with the position and the
\* score beside the plan.
Found(d) ==
  IF explore_clone(Collected, d, drone_idx).ok
  THEN explore_impl(Collected, d, [kind |-> "clone"])
  ELSE IF explore_spawn(Collected, d, drone_idx).ok
  THEN explore_impl(Collected, d, [kind |-> "spawn"])
  ELSE explore_impl(Collected, d, [kind |-> "max_wrapping"])

\* C28: with a single drone, a turn that executes an action of a plan moves
\* the drone to the position the search computes for that action, and leaves
\* the rest of the plan leading, from the drone as the next turn finds it
\* (its counters worn off once more, the drilled cells WRAPPED), through the
\* positions the search computes for the longer prefixes; a plan searched in
\* this turn ends at the position explore_impl returns with it.
C28_ExecutionFollowsSearch ==
  [][pc = "turn" /\ Len(drones) = 1 /\ pc' \in {"turn", "done"}
       /\ Emitted[1] \in {"W", "A", "S", "D", "T"} =>
       LET d == Selected.drone
           found == Found(d)
           plan == IF d.plan # <<>> THEN d.plan ELSE found.plan
           walk == PlannedWalk(Collected, d, Root(d), plan)
           n == wear_off(drones'[1])
       IN  /\ Len(walk) = Len(plan)
           /\ walk[Len(walk)] # None
           /\ d.plan = <<>> => found.ok /\ found.pos = walk[Len(walk)]
           /\ drones'[1].pos = walk[1]
           /\ drones'[1].plan = Tail(plan)
           /\ PlannedWalk(level', n, Root(n), Tail(plan)) = Tail(walk)
    ]_vars

\* A single drone in the middle of a plan has just moved on the last turn of
\* its drill, after a BLOCKED cell was drilled.
C28_Witness ==
  /\ pc = "turn"
  /\ Len(drones) = 1
  /\ drones[1].plan # <<>>
  /\ drones[1].drill = 1
  /\ drones[1].path[Len(drones[1].path)][1] \in {"W", "A", "S", "D"}
  /\ \E p \in Cells(level) :
       /\ get_zone(level, p.x, p.y) = UNDECIDED_ZONE
       /\ get_cell(level, p.x, p.y) = WRAPPED
====
